---- MODULE Spec2Model ----
(***************************************************************************)
(* Model of the GitHubShowcase application of src/app.js: the data         *)
(* pipeline (processRepositoryData, performAdvancedSearch and its          *)
(* memoization, updateFilteredRepositories, sortRepositories), the state   *)
(* container (setState), the load / retry / error-recovery handlers, the   *)
(* debounced search input and the frame-scheduled view (updateUI).         *)
(*                                                                         *)
(* The class defines loadData, handleSearch, handleQuickFilter,            *)
(* handleLanguageFilter, handleSort and render more than once; the last    *)
(* definition in the class body is the one that runs, and it is the one    *)
(* modelled here.                                                          *)
(*                                                                         *)
(* Strings are sequences of one-character strings, so that toLowerCase,    *)
(* trim, split, join and includes are computed and not assumed.            *)
(***************************************************************************)
EXTENDS Integers, Sequences, FiniteSets, TLC

(***************************************************************************)
(* Bounds of the model.                                                    *)
(***************************************************************************)
\* number of loads (initial load, manual and automatic retries) ever started
MaxLoads == 2

\* number of recovery timers of handleGlobalError pending at one time
MaxRecoveryTimers == 1

(***************************************************************************)
(* String primitives of the JavaScript runtime, as the code uses them.     *)
(***************************************************************************)
\* String.prototype.toLowerCase on one character of the alphabet in use
ToLowerChar(c) ==
  CASE c = "A" -> "a"
    [] c = "B" -> "b"
    [] c = "G" -> "g"
    [] c = "U" -> "u"
    [] c = "O" -> "o"
    [] OTHER -> c

\* String.prototype.toLowerCase
ToLower(s) == [i \in 1..Len(s) |-> ToLowerChar(s[i])]

\* String.prototype.includes: t occurs in s as a contiguous substring
Includes(s, t) ==
  \E i \in 0..(Len(s) - Len(t)) : SubSeq(s, i + 1, i + Len(t)) = t

\* the characters matched by \s, of the alphabet in use
IsSpace(c) == c = " "

RECURSIVE TrimStart(_)
TrimStart(s) ==
  IF s # <<>> /\ IsSpace(Head(s)) THEN TrimStart(Tail(s)) ELSE s

RECURSIVE TrimEnd(_)
TrimEnd(s) ==
  IF s # <<>> /\ IsSpace(s[Len(s)]) THEN TrimEnd(SubSeq(s, 1, Len(s) - 1)) ELSE s

\* String.prototype.trim
Trim(s) == TrimEnd(TrimStart(s))

\* s.split(/\s+/): the pieces between maximal runs of whitespace, the empty
\* pieces at either end included
RECURSIVE SplitWs(_, _, _)
SplitWs(s, cur, inRun) ==
  IF s = <<>> THEN <<cur>>
  ELSE IF IsSpace(Head(s))
       THEN IF inRun THEN SplitWs(Tail(s), cur, TRUE)
                     ELSE <<cur>> \o SplitWs(Tail(s), <<>>, TRUE)
       ELSE SplitWs(Tail(s), Append(cur, Head(s)), FALSE)

\* Array.prototype.filter
RECURSIVE SelectSeqOf(_, _)
SelectSeqOf(seq, keep) ==
  IF seq = <<>> THEN <<>>
  ELSE (IF Head(seq) \in keep THEN <<Head(seq)>> ELSE <<>>)
         \o SelectSeqOf(Tail(seq), keep)

\* Array.prototype.join with a one-space separator
RECURSIVE JoinSpace(_)
JoinSpace(strs) ==
  IF strs = <<>> THEN <<>>
  ELSE IF Len(strs) = 1 THEN Head(strs)
  ELSE Head(strs) \o <<" ">> \o JoinSpace(Tail(strs))

\* the elements of a sequence
Range(seq) == {seq[i] : i \in 1..Len(seq)}

(***************************************************************************)
(* Array.prototype.sort with a comparator that compares integer keys       *)
(* (a.key - b.key): the sort is stable, so an element goes after every     *)
(* element with a smaller key and after the earlier elements with an equal *)
(* key.                                                                    *)
(***************************************************************************)
SortByKeys(seq, keys) ==
  LET n == Len(seq)
      pos(i) == 1 + Cardinality({j \in 1..n :
                       keys[j] < keys[i] \/ (keys[j] = keys[i] /\ j < i)})
  IN  [p \in 1..n |-> seq[CHOOSE i \in 1..n : pos(i) = p]]

\* the collation rank of a character (letters in alphabetical order, after
\* the punctuation), for localeCompare
CharRank(c) ==
  CASE c = " " -> 0
    [] c = "/" -> 1
    [] c = "a" -> 2
    [] c = "b" -> 3
    [] c = "g" -> 4
    [] c = "k" -> 5
    [] c = "n" -> 6
    [] c = "o" -> 7
    [] c = "u" -> 8
    [] c = "w" -> 9
    [] c = "x" -> 10
    [] OTHER -> 11

\* a.localeCompare(b, undefined, { sensitivity: 'base' }) < 0: the letters'
\* case is ignored
RECURSIVE LocaleLess(_, _)
LocaleLess(a, b) ==
  IF b = <<>> THEN FALSE
  ELSE IF a = <<>> THEN TRUE
  ELSE LET ca == CharRank(ToLowerChar(Head(a)))
           cb == CharRank(ToLowerChar(Head(b)))
       IN  IF ca # cb THEN ca < cb ELSE LocaleLess(Tail(a), Tail(b))

(***************************************************************************)
(* RawRepository records of data.json.  An absent (or falsy) field is the  *)
(* empty string, the number 0 or the empty list; an absent owner is the    *)
(* empty list and a present one the one-element list of its login; nil     *)
(* marks a null entry of the array.                                        *)
(***************************************************************************)
Raw(id, name, full_name, description, stars, language, topics, owner, updated, created) ==
  [nil |-> FALSE, id |-> id, name |-> name, full_name |-> full_name,
   description |-> description, stargazers_count |-> stars,
   language |-> language, topics |-> topics, owner |-> owner,
   updated_at |-> updated, created_at |-> created]

NullEntry ==
  [nil |-> TRUE, id |-> 0, name |-> <<>>, full_name |-> <<>>,
   description |-> <<>>, stargazers_count |-> 0, language |-> <<>>,
   topics |-> <<>>, owner |-> <<>>, updated_at |-> 0, created_at |-> 0]

LangGo == <<"G", "o">>
LangUnknown == <<"U", "n", "k", "n", "o", "w", "n">>
LangOther == <<"O", "t", "h", "e", "r">>
\* "__proto__": read on an object literal it gives Object.prototype, which is
\* truthy, and a number or a string assigned to it is dropped
LangProto == <<"_", "_", "p", "r", "o", "t", "o", "_", "_">>

\* {id: 1, name: "ab", full_name: "o/ab", stargazers_count: 5, language: "Go",
\*  owner: {login: "o"}, updated_at: 3, created_at: 1}
RepoAb == Raw(1, <<"a", "b">>, <<"o", "/", "a", "b">>, <<>>, 5, LangGo, <<>>,
              <<(<<"o">>)>>, 3, 1)

\* {id: 2, name: "Ba", description: "x", stargazers_count: 50, topics: ["go"],
\*  owner: {login: "u"}, updated_at: 2, created_at: 2}: no language, no full name
RepoBa == Raw(2, <<"B", "a">>, <<>>, <<"x">>, 50, <<>>, <<(<<"g", "o">>)>>,
              <<(<<"u">>)>>, 2, 2)

\* {id: 3, name: "x"}: every optional field absent
RepoX == Raw(3, <<"x">>, <<>>, <<>>, 0, <<>>, <<>>, <<>>, 0, 0)

\* {id: 4, name: "gx", stargazers_count: 5, language: "Go", owner: {login: "u"}}
RepoGx == Raw(4, <<"g", "x">>, <<>>, <<>>, 5, LangGo, <<>>, <<(<<"u">>)>>, 1, 3)

\* {id: 6, name: "ka", stargazers_count: 7, language: "Awk", owner: {login: "u"}}
LangAwk == <<"A", "w", "k">>
RepoKa == Raw(6, <<"k", "a">>, <<>>, <<>>, 7, LangAwk, <<>>, <<(<<"u">>)>>, 2, 2)

\* an entry without identifier and an entry without name
RepoNoId == Raw(0, <<"a", "b">>, <<>>, <<>>, 7, LangGo, <<>>, <<(<<"o">>)>>, 1, 1)
RepoNoName == Raw(5, <<>>, <<>>, <<>>, 7, LangGo, <<>>, <<(<<"o">>)>>, 1, 1)

(***************************************************************************)
(* Parsed payloads of data.json: an array, an object keyed by language     *)
(* (groups, in key iteration order; a value that is no array has           *)
(* isArray = FALSE), or a value that is neither.                           *)
(***************************************************************************)
ArrayPayload(items) == [kind |-> "array", items |-> items, groups |-> <<>>]
ObjectPayload(groups) == [kind |-> "object", items |-> <<>>, groups |-> groups]
OtherPayload(kind) == [kind |-> kind, items |-> <<>>, groups |-> <<>>]
Group(key, isArray, repos) == [key |-> key, isArray |-> isArray, repos |-> repos]

PayloadA == ArrayPayload(<<RepoAb, RepoBa>>)
PayloadB == ArrayPayload(<<RepoNoId, RepoX, NullEntry, RepoGx, RepoNoName>>)
PayloadG == ObjectPayload(<<Group(<<"x">>, TRUE, <<RepoBa, RepoNoName>>),
                            Group(<<"k">>, FALSE, <<>>),
                            Group(LangGo, TRUE, <<RepoAb, RepoGx, RepoAb>>)>>)
\* three languages: {"Awk": [ka], "Go": [ab, gx], "x": [Ba]}
PayloadL == ObjectPayload(<<Group(LangAwk, TRUE, <<RepoKa>>),
                            Group(LangGo, TRUE, <<RepoAb, RepoGx>>),
                            Group(<<"x">>, TRUE, <<RepoBa>>)>>)

\* [Ba, ga]: a record without language and {id: 7, name: "ga",
\* stargazers_count: 3, language: "__proto__", owner: {login: "u"}}
PayloadP ==
  ArrayPayload(<<RepoBa,
                 Raw(7, <<"g", "a">>, <<>>, <<>>, 3, LangProto, <<>>,
                     <<(<<"u">>)>>, 1, 1)>>)

\* an object of WideKeys + 1 languages: WideKeys keys "k0001", "k0002", ...
\* with an empty array each, then "Go" with a Go record and a record without
\* language
WideKeys == 1000
Digit(n) == <<"0", "1", "2", "3", "4", "5", "6", "7", "8", "9">>[(n % 10) + 1]
WideKey(i) ==
  <<"k", Digit(i \div 1000), Digit(i \div 100), Digit(i \div 10), Digit(i)>>
PayloadWide ==
  ObjectPayload([i \in 1..(WideKeys + 1) |->
                   IF i <= WideKeys THEN Group(WideKey(i), TRUE, <<>>)
                   ELSE Group(LangGo, TRUE, <<RepoAb, RepoBa>>)])
PayloadEmpty == ArrayPayload(<<>>)
PayloadNull == OtherPayload("null")
PayloadNumber == OtherPayload("number")
PayloadString == OtherPayload("string")
PayloadBoolean == OtherPayload("boolean")

\* the value new Date() has when a record without timestamp is normalized
NowTime == 9

\* the order given to a language that languageOrder does not hold (?? 999)
FallbackOrder == 999

(***************************************************************************)
(* processRepositoryData and the functions it calls.                       *)
(***************************************************************************)
\* [..].filter(Boolean): the non-empty strings
RECURSIVE FilterBoolean(_)
FilterBoolean(strs) ==
  IF strs = <<>> THEN <<>>
  ELSE (IF Head(strs) # <<>> THEN <<Head(strs)>> ELSE <<>>)
         \o FilterBoolean(Tail(strs))

createSearchText(repo) ==
  ToLower(JoinSpace(FilterBoolean(
    <<repo.name, repo.full_name, repo.description, repo.language>>
      \o repo.topics \o repo.owner)))

\* a filter that asks for the identifier only: repo && repo.id
IsValidEntryIdOnly(repo) == ~repo.nil /\ repo.id # 0

\* repo && repo.id && repo.name
IsValidEntry(repo) == ~repo.nil /\ repo.id # 0 /\ repo.name # <<>>

\* the object the map callback builds for an entry; gen is the load that built
\* it: with originalIndex it identifies the object
NormalizeEntry(repo, index, gen) ==
  [gen |-> gen,
   id |-> repo.id, name |-> repo.name, full_name |-> repo.full_name,
   owner |-> repo.owner,
   description |-> repo.description,
   stargazers_count |-> repo.stargazers_count,
   language |-> IF repo.language # <<>> THEN repo.language ELSE LangUnknown,
   topics |-> repo.topics,
   created_at |-> IF repo.created_at # 0 THEN repo.created_at ELSE NowTime,
   updated_at |-> IF repo.updated_at # 0 THEN repo.updated_at ELSE NowTime,
   originalIndex |-> index,
   searchText |-> createSearchText(repo)]

\* the flat list: the array itself, or the arrays of the object's keys
RECURSIVE FlattenGroups(_)
FlattenGroups(groups) ==
  IF groups = <<>> THEN <<>>
  ELSE IF Len(groups) = 1
       THEN (IF Head(groups).isArray THEN Head(groups).repos ELSE <<>>)
       ELSE FlattenGroups(SubSeq(groups, 1, Len(groups) \div 2))
              \o FlattenGroups(SubSeq(groups, (Len(groups) \div 2) + 1, Len(groups)))

FlattenPayload(data) ==
  IF data.kind = "array" THEN data.items
  ELSE IF data.kind = "object" THEN FlattenGroups(data.groups)
  ELSE <<>>

\* languageOrder: the keys of an object payload, each at the count of the
\* keys recorded before it; `!languageOrder[language]` is false for the key
\* "__proto__", which is not recorded and takes no position
LanguageOrderOf(data) ==
  IF data.kind = "object"
  THEN LET own == SelectSeq([i \in 1..Len(data.groups) |-> data.groups[i].key],
                            LAMBDA k : k # LangProto)
       IN  [k \in Range(own) |-> (CHOOSE i \in 1..Len(own) : own[i] = k) - 1]
  ELSE <<>>

\* .filter(valid).map(normalize): originalIndex counts the valid entries
RECURSIVE NormalizeAll(_, _, _)
NormalizeAll(raws, index, gen) ==
  IF raws = <<>> THEN <<>>
  ELSE IF IsValidEntry(Head(raws))
       THEN <<NormalizeEntry(Head(raws), index, gen)>>
              \o NormalizeAll(Tail(raws), index + 1, gen)
       ELSE NormalizeAll(Tail(raws), index, gen)

\* keys that leave the order as it is
SourceOrderKeys(repos) == [i \in 1..Len(repos) |-> 0]

StarsDescKeys(repos) == [i \in 1..Len(repos) |-> 0 - repos[i].stargazers_count]

\* typeof null is 'object', and Object.keys(null) throws a TypeError
ProcessThrows(data) == data.kind = "null"

\* a normalization that sorts by stars first and numbers the entries after
processStarsFirst(data, gen) ==
  LET valid == SelectSeq(FlattenPayload(data), IsValidEntry)
  IN  NormalizeAll(SortByKeys(valid, StarsDescKeys(valid)), 0, gen)

processRepositoryData(data, gen) ==
  LET normalized == NormalizeAll(FlattenPayload(data), 0, gen)
  IN  SortByKeys(normalized, StarsDescKeys(normalized))

\* the UTF-16 code unit of a character, which the default sort compares
CodeUnit(c) ==
  CASE c = " " -> 32 [] c = "/" -> 47
    [] c = "A" -> 65 [] c = "B" -> 66 [] c = "G" -> 71 [] c = "O" -> 79
    [] c = "U" -> 85 [] c = "_" -> 95
    [] c = "a" -> 97 [] c = "b" -> 98 [] c = "e" -> 101 [] c = "g" -> 103
    [] c = "h" -> 104 [] c = "k" -> 107 [] c = "n" -> 110 [] c = "o" -> 111
    [] c = "p" -> 112 [] c = "r" -> 114 [] c = "t" -> 116 [] c = "u" -> 117 [] c = "w" -> 119
    [] c = "x" -> 120
    [] OTHER -> 127

\* a < b in the order of Array.prototype.sort without comparator
RECURSIVE CodeUnitLess(_, _)
CodeUnitLess(a, b) ==
  IF b = <<>> THEN FALSE
  ELSE IF a = <<>> THEN TRUE
  ELSE IF CodeUnit(Head(a)) # CodeUnit(Head(b))
       THEN CodeUnit(Head(a)) < CodeUnit(Head(b))
       ELSE CodeUnitLess(Tail(a), Tail(b))

\* the distinct languages of a list, in the order of their first appearance
\* (the key order of the object calculateLanguageCounts and
\* groupRepositoriesByLanguage build)
RECURSIVE LanguagesInOrder(_, _)
LanguagesInOrder(repos, seen) ==
  IF repos = <<>> THEN <<>>
  ELSE IF Head(repos).language \in seen
       THEN LanguagesInOrder(Tail(repos), seen)
       ELSE <<Head(repos).language>>
              \o LanguagesInOrder(Tail(repos), seen \cup {Head(repos).language})

\* extractLanguages: the languages other than "Unknown", sorted by code unit
extractLanguages(repositories) ==
  LET inOrder == LanguagesInOrder(repositories, {LangUnknown})
      langs == Range(inOrder)
  IN  SortByKeys(inOrder,
        [i \in 1..Len(inOrder) |->
           Cardinality({m \in langs : CodeUnitLess(m, inOrder[i])})])

\* calculateLanguageCounts()[language]
LanguageCount(repositories, language) ==
  Cardinality({i \in 1..Len(repositories) : repositories[i].language = language})

\* the order populateLanguageFilter sorts the languages array into, in place:
\* by count descending, then by localeCompare
SortedLanguages(languages, repositories) ==
  LET langs == Range(languages)
      before(m, l) ==
        \/ LanguageCount(repositories, m) > LanguageCount(repositories, l)
        \/ /\ LanguageCount(repositories, m) = LanguageCount(repositories, l)
           /\ LocaleLess(m, l)
  \* languageCounts["__proto__"] is Object.prototype and the comparator
  \* gives NaN, which leaves one or two languages as they are
  IN  IF LangProto \in langs THEN languages
      ELSE SortByKeys(languages,
             [i \in 1..Len(languages) |->
                Cardinality({m \in langs : before(m, languages[i])})])

\* languageOrder[language] ?? 999
OrderOf(order, language) ==
  IF language \in DOMAIN order THEN order[language] ELSE FallbackOrder

\* the number of quick-filter buttons
QuickFilterLimit == 6

Take(seq, n) == SubSeq(seq, 1, IF Len(seq) < n THEN Len(seq) ELSE n)

getLanguagesForQuickFilters(repositories, order, languageCategory) ==
  \* counts["__proto__"] = ... adds no key to counts
  LET keys == LanguagesInOrder(repositories, {LangProto})
  IN  IF languageCategory = "recently"
      THEN Take(SortByKeys(keys, [i \in 1..Len(keys) |-> OrderOf(order, keys[i])]),
                QuickFilterLimit)
      ELSE Take(SortByKeys(keys,
                  [i \in 1..Len(keys) |-> 0 - LanguageCount(repositories, keys[i])]),
                QuickFilterLimit)

(***************************************************************************)
(* performAdvancedSearch.  The objects of the working set are shared by    *)
(* every list that holds them, so the searchScore annotation lives in one  *)
(* map, keyed by the object (its load and originalIndex).                  *)
(***************************************************************************)
Null == "null"

ObjectOf(repo) == <<repo.gen, repo.originalIndex>>

\* searchTerm.toLowerCase().split(/\s+/).filter(term => term.length > 0)
TermsOf(searchTerm) == FilterBoolean(SplitWs(ToLower(searchTerm), <<>>, FALSE))

\* terms.every(term => searchableText.includes(term))
HasAllTerms(repo, terms) ==
  \A i \in 1..Len(terms) : Includes(repo.searchText, terms[i])

\* boosts with the weights of description and topics exchanged
TermScoreSwapped(repo, term) ==
    (IF Includes(ToLower(repo.name), term) THEN 10 ELSE 0)
  + (IF Includes(ToLower(repo.description), term) THEN 8 ELSE 0)
  + (IF \E t \in 1..Len(repo.topics) : Includes(ToLower(repo.topics[t]), term)
     THEN 5 ELSE 0)
  + (IF Includes(ToLower(repo.language), term) THEN 6 ELSE 0)
  + (IF Includes(ToLower(repo.owner[1]), term) THEN 4 ELSE 0)

\* the boosts of one term; repo.owner.login is only read here
TermScore(repo, term) ==
    (IF Includes(ToLower(repo.name), term) THEN 10 ELSE 0)
  + (IF Includes(ToLower(repo.description), term) THEN 5 ELSE 0)
  + (IF \E t \in 1..Len(repo.topics) : Includes(ToLower(repo.topics[t]), term)
     THEN 8 ELSE 0)
  + (IF Includes(ToLower(repo.language), term) THEN 6 ELSE 0)
  + (IF Includes(ToLower(repo.owner[1]), term) THEN 4 ELSE 0)

RECURSIVE SumTermScores(_, _)
SumTermScores(repo, terms) ==
  IF terms = <<>> THEN 0
  ELSE TermScore(repo, Head(terms)) + SumTermScores(repo, Tail(terms))

\* repo.owner.login of a record without owner: a TypeError, raised when the
\* first term's boosts are computed
ScoreThrows(repo, terms) == terms # <<>> /\ repo.owner = <<>>

\* the filter callback on one entry: the entry does not hold every term
\* ("skip"), reading its owner's login throws ("throw"), or its score is
\* stored and it is kept or dropped
EntryOutcome(repo, terms) ==
  IF ~HasAllTerms(repo, terms) THEN [kind |-> "skip", score |-> 0]
  ELSE IF ScoreThrows(repo, terms) THEN [kind |-> "throw", score |-> 0]
  ELSE [kind |-> "scored", score |-> SumTermScores(repo, terms)]

\* the filter over the list, left to right: the entries kept, the annotations
\* written, and whether a callback threw (which ends the filter)
RECURSIVE SearchFilter(_, _, _, _)
SearchStep(repos, terms, scores, kept, outcome) ==
  IF outcome.kind = "skip" THEN SearchFilter(Tail(repos), terms, scores, kept)
  ELSE IF outcome.kind = "throw"
  THEN [kept |-> kept, scores |-> scores, threw |-> TRUE]
  ELSE SearchFilter(Tail(repos), terms,
                    (ObjectOf(Head(repos)) :> outcome.score) @@ scores,
                    IF outcome.score > 0 THEN Append(kept, Head(repos)) ELSE kept)

SearchFilter(repos, terms, scores, kept) ==
  IF repos = <<>> THEN [kept |-> kept, scores |-> scores, threw |-> FALSE]
  ELSE SearchStep(repos, terms, scores, kept, EntryOutcome(Head(repos), terms))

\* repo.searchScore || 0
ScoreOrZero(scores, repo) ==
  IF ObjectOf(repo) \in DOMAIN scores THEN scores[ObjectOf(repo)] ELSE 0

\* .sort((a, b) => (b.searchScore || 0) - (a.searchScore || 0))
SortByScore(found) ==
  [found EXCEPT !.kept =
     SortByKeys(found.kept,
       [i \in 1..Len(found.kept) |-> 0 - ScoreOrZero(found.scores, found.kept[i])])]

performAdvancedSearch(repositories, searchTerm, scores) ==
  SortByScore(SearchFilter(repositories, TermsOf(searchTerm), scores, <<>>))

(***************************************************************************)
(* The memoized search optimizeSearch installs over performAdvancedSearch. *)
(* searchCache is the Map in insertion order; an entry's result is the     *)
(* very array the search returned.                                         *)
(***************************************************************************)
\* the size above which the oldest cache entry is deleted
CacheLimit == 50

\* `${searchTerm}-${repositories.length}`
CacheKey(searchTerm, repositories) == <<searchTerm, Len(repositories)>>

CacheHas(cache, key) == \E i \in 1..Len(cache) : cache[i].key = key

CacheGet(cache, key) ==
  cache[CHOOSE i \in 1..Len(cache) : cache[i].key = key].result

CacheSet(cache, key, result) ==
  Append(IF Len(cache) > CacheLimit THEN Tail(cache) ELSE cache,
         [key |-> key, result |-> result])

\* the result of a search that was not cached is cached, unless it threw
MemoStore(cache, key, found) ==
  [kept |-> found.kept, scores |-> found.scores, threw |-> found.threw,
   cache |-> IF found.threw THEN cache ELSE CacheSet(cache, key, found.kept)]

memoizedSearch(repositories, searchTerm, cache, scores) ==
  IF CacheHas(cache, CacheKey(searchTerm, repositories))
  THEN [kept |-> CacheGet(cache, CacheKey(searchTerm, repositories)),
        scores |-> scores, threw |-> FALSE, cache |-> cache]
  ELSE MemoStore(cache, CacheKey(searchTerm, repositories),
                 performAdvancedSearch(repositories, searchTerm, scores))

(***************************************************************************)
(* setState, updateFilteredRepositories and sortRepositories, on the       *)
(* application record [state, alias, cache, scores, threw]: alias tells    *)
(* which array state.filteredRepositories is (an array of its own, the     *)
(* state.repositories array, or the result array of a cache entry), for    *)
(* sortRepositories sorts that array in place.                             *)
(***************************************************************************)
OwnArray == [kind |-> "own", key |-> <<>>]
ReposArray == [kind |-> "repos", key |-> <<>>]
CacheArray(key) == [kind |-> "cache", key |-> key]
\* the array of its own that a pending frame of renderRepositories holds
FrameArray == [kind |-> "own", key |-> <<"frame">>]

\* the localeCompare rank of a name among the names of a list
NameRank(repos, i) ==
  Cardinality({n \in {repos[j].name : j \in 1..Len(repos)} :
                 LocaleLess(n, repos[i].name)})

\* a comparator whose default case keeps the order of the data
SortKeysDefaultRecent(repos, sortBy) ==
  [i \in 1..Len(repos) |->
     CASE sortBy = "stars" -> 0 - repos[i].stargazers_count
       [] sortBy = "recent-likes" -> repos[i].originalIndex
       [] sortBy = "stars-asc" -> repos[i].stargazers_count
       [] sortBy = "name" -> NameRank(repos, i)
       [] sortBy = "name-desc" -> 0 - NameRank(repos, i)
       [] sortBy = "updated" -> 0 - repos[i].updated_at
       [] sortBy = "created" -> 0 - repos[i].created_at
       [] OTHER -> repos[i].originalIndex]

\* the comparator of sortRepositories, as the key it orders by
SortKeys(repos, sortBy) ==
  [i \in 1..Len(repos) |->
     CASE sortBy = "stars" -> 0 - repos[i].stargazers_count
       [] sortBy = "recent-likes" -> repos[i].originalIndex
       [] sortBy = "stars-asc" -> repos[i].stargazers_count
       [] sortBy = "name" -> NameRank(repos, i)
       [] sortBy = "name-desc" -> 0 - NameRank(repos, i)
       [] sortBy = "updated" -> 0 - repos[i].updated_at
       [] sortBy = "created" -> 0 - repos[i].created_at
       [] OTHER -> 0 - repos[i].stargazers_count]

\* cache with the result array of key replaced
CacheWith(cache, key, result) ==
  [i \in 1..Len(cache) |->
     IF cache[i].key = key THEN [cache[i] EXCEPT !.result = result] ELSE cache[i]]

\* the array state.filteredRepositories is becomes sorted
SortedInPlace(app, sorted) ==
  [app EXCEPT
     !.state.filteredRepositories = sorted,
     !.state.repositories = IF app.alias.kind = "repos" THEN sorted ELSE @,
     !.cache = IF app.alias.kind = "cache"
               THEN CacheWith(@, app.alias.key, sorted) ELSE @]

sortRepositories(app) ==
  SortedInPlace(app,
    SortByKeys(app.state.filteredRepositories,
               SortKeys(app.state.filteredRepositories, app.state.sortBy)))

\* filtered.filter(repo => repo.language === selectedLanguage)
RECURSIVE FilterLanguage(_, _)
FilterLanguage(repos, language) ==
  IF repos = <<>> THEN <<>>
  ELSE (IF Head(repos).language = language THEN <<Head(repos)>> ELSE <<>>)
         \o FilterLanguage(Tail(repos), language)

\* the search stage of updateFilteredRepositories
SearchStage(app) ==
  IF app.state.searchTerm # <<>>
  THEN memoizedSearch(app.state.repositories, app.state.searchTerm,
                      app.cache, app.scores)
  ELSE [kept |-> app.state.repositories, scores |-> app.scores,
        threw |-> FALSE, cache |-> app.cache]

\* the language stage, and the assignment of state.filteredRepositories: the
\* array is the search's result array when only the search filtered
LanguageStage(app, searched) ==
  IF searched.threw
  THEN [app EXCEPT !.scores = searched.scores, !.threw = TRUE]
  ELSE [app EXCEPT
          !.state.filteredRepositories =
             IF app.state.selectedLanguage # <<>>
             THEN FilterLanguage(searched.kept, app.state.selectedLanguage)
             ELSE searched.kept,
          !.alias =
             IF app.state.selectedLanguage = <<>> /\ app.state.searchTerm # <<>>
             THEN CacheArray(CacheKey(app.state.searchTerm, app.state.repositories))
             ELSE OwnArray,
          !.cache = searched.cache,
          !.scores = searched.scores]

SortUnlessThrew(app) == IF app.threw THEN app ELSE sortRepositories(app)

updateFilteredRepositories(app) ==
  SortUnlessThrew(LanguageStage(app, SearchStage(app)))

\* this.state = { ...this.state, ...newState }
Merge(st, newState) ==
  [k \in DOMAIN st |-> IF k \in DOMAIN newState THEN newState[k] ELSE st[k]]

\* the assignment of this.state; a filteredRepositories given (by loadData) is
\* the repositories array itself
Assign(app, newState) ==
  [app EXCEPT !.state = Merge(@, newState),
              !.alias = IF "filteredRepositories" \in DOMAIN newState
                        THEN ReposArray ELSE @]

UpdateIfFiltersIn(app, newState) ==
  IF {"repositories", "searchTerm", "selectedLanguage"} \cap DOMAIN newState # {}
  THEN updateFilteredRepositories(app)
  ELSE app

SortIfSortIn(app, newState) ==
  IF ~app.threw /\ {"sortBy", "sortOrder"} \cap DOMAIN newState # {}
  THEN sortRepositories(app)
  ELSE app

setState(app, newState) ==
  SortIfSortIn(UpdateIfFiltersIn(Assign(app, newState), newState), newState)

(***************************************************************************)
(* The state of a GitHubShowcase instance and of the page it drives.       *)
(***************************************************************************)
VARIABLES
  state,               \* this.state
  filteredAlias,       \* which array state.filteredRepositories is
  searchCache,         \* this.searchCache
  searchScore,         \* the searchScore field of the record objects
  languageOrder,       \* this.languageOrder
  loads,               \* the loadData calls started, each "fetch", "json" or "over"
  debounceTimer,       \* the timeout of this.debounceTimer and the input it holds
  recoveryTimers,      \* the pending timeouts of handleGlobalError
  animationFrame,      \* TRUE while the frame of this.animationFrame is pending
  searchInput,         \* elements.searchInput.value
  languageFilter,      \* elements.languageFilter: its options and its value
  quickFilterButtons,  \* elements.quickFilterButtons: the buttons, the active ones
  display,             \* style.display of the four regions and of the stats bar
  grid,                \* the language sections of elements.repositoryGrid, in order
  gridFrame            \* the pending frame of renderRepositories, the array it holds

vars == <<state, filteredAlias, searchCache, searchScore, languageOrder, loads,
          debounceTimer, recoveryTimers, animationFrame, searchInput,
          languageFilter, quickFilterButtons, display, grid, gridFrame>>

appVars == <<state, filteredAlias, searchCache, searchScore>>
domVars == <<searchInput, languageFilter, quickFilterButtons, display, grid, gridFrame>>

\* the application record the state-container operators work on
App ==
  [state |-> state, alias |-> filteredAlias, cache |-> searchCache,
   scores |-> searchScore, threw |-> FALSE]

Commit(app) ==
  /\ state' = app.state
  /\ filteredAlias' = app.alias
  /\ searchCache' = app.cache
  /\ searchScore' = app.scores

NoTimer == [pending |-> FALSE, term |-> <<>>]
NoGridFrame == [pending |-> FALSE, repos |-> <<>>, alias |-> OwnArray]

\* the constructor
Init ==
  /\ state = [repositories |-> <<>>, filteredRepositories |-> <<>>,
              searchTerm |-> <<>>, selectedLanguage |-> <<>>,
              sortBy |-> "recent-likes", sortOrder |-> "desc",
              isLoading |-> TRUE, languages |-> <<>>, error |-> Null,
              languageCategory |-> "recently"]
  /\ filteredAlias = OwnArray
  /\ searchCache = <<>>
  /\ searchScore = <<>>
  /\ languageOrder = <<>>
  /\ loads = <<>>
  /\ debounceTimer = NoTimer
  /\ recoveryTimers = 0
  /\ animationFrame = FALSE
  /\ searchInput = <<>>
  /\ languageFilter = [options |-> <<>>, value |-> <<>>]
  /\ quickFilterButtons = [buttons |-> <<>>, active |-> {}]
  /\ display = [loadingState |-> "", errorState |-> "", emptyState |-> "",
                repositoryGrid |-> "", statsBar |-> ""]
  /\ grid = <<>>
  /\ gridFrame = NoGridFrame

\* init() has bound the handlers and started the first load
Started == loads # <<>>

\* render(): the pending frame is cancelled and a new one requested
Render == animationFrame' = TRUE

\* handleGlobalError: the recovery timeout is set
HandleGlobalError == recoveryTimers' = recoveryTimers + 1

\* the messages of the errors the runtime raises
HttpErrorMessage == "HTTP error! status: 500"
NetworkErrorMessage == "Failed to fetch"
JsonErrorMessage == "Unexpected token in JSON"
NullKeysMessage == "Cannot convert undefined or null to object"
OwnerLoginMessage == "Cannot read properties of undefined (reading 'login')"

(***************************************************************************)
(* loadData (the last definition), with its callers init and retry.  The   *)
(* first load is the one init starts.                                      *)
(***************************************************************************)
\* loadData up to its first await: the loading state is entered, fetch is sent
LoadStart ==
  /\ Commit(setState(App, [isLoading |-> TRUE, error |-> Null]))
  /\ loads' = Append(loads, "fetch")

\* DOMContentLoaded: init() runs up to the await of loadData
InitApp ==
  /\ loads = <<>>
  /\ LoadStart
  /\ UNCHANGED <<languageOrder, debounceTimer, recoveryTimers, animationFrame, domVars>>

\* the catch block of loadData, then the caller's: init calls handleError,
\* which sets the error again and renders; retry swallows the error
LoadCatch(l, app, message) ==
  /\ Commit(setState([app EXCEPT !.threw = FALSE],
                     [isLoading |-> FALSE, error |-> message]))
  /\ loads' = [loads EXCEPT ![l] = "over"]
  /\ IF l = 1 THEN Render ELSE UNCHANGED animationFrame

\* fetch resolves with an ok response: loadData goes on to response.json()
FetchOk(l) ==
  /\ l \in DOMAIN loads /\ loads[l] = "fetch"
  /\ loads' = [loads EXCEPT ![l] = "json"]
  /\ UNCHANGED <<appVars, languageOrder, debounceTimer, recoveryTimers,
                 animationFrame, domVars>>

\* fetch resolves with a response that is not ok
FetchHttpError(l) ==
  /\ l \in DOMAIN loads /\ loads[l] = "fetch"
  /\ LoadCatch(l, App, HttpErrorMessage)
  /\ UNCHANGED <<languageOrder, debounceTimer, recoveryTimers, domVars>>

\* fetch rejects (the network fails)
FetchReject(l) ==
  /\ l \in DOMAIN loads /\ loads[l] = "fetch"
  /\ LoadCatch(l, App, NetworkErrorMessage)
  /\ UNCHANGED <<languageOrder, debounceTimer, recoveryTimers, domVars>>

\* response.json() rejects (the body is no JSON)
JsonReject(l) ==
  /\ l \in DOMAIN loads /\ loads[l] = "json"
  /\ LoadCatch(l, App, JsonErrorMessage)
  /\ UNCHANGED <<languageOrder, debounceTimer, recoveryTimers, domVars>>

\* populateQuickFilters: the buttons are rebuilt, none active, unless there is
\* no language at all
populateQuickFilters(st, order, buttons) ==
  LET languages == getLanguagesForQuickFilters(st.repositories, order,
                                               st.languageCategory)
  IN  IF languages = <<>> THEN buttons
      ELSE [buttons |-> languages, active |-> {}]

\* the setState call of loadData on the data parsed by load l
LoadSetState(l, data) ==
  setState(App, [repositories |-> processRepositoryData(data, l),
                 filteredRepositories |-> processRepositoryData(data, l),
                 languages |-> extractLanguages(processRepositoryData(data, l)),
                 isLoading |-> FALSE])

\* loadData reaches the end of its try block
LoadSucceeds(l, data) == ~ProcessThrows(data) /\ ~LoadSetState(l, data).threw

\* the end of the try block: populateLanguageFilter sorts state.languages in
\* place and rebuilds the options (the selected one is removed with the
\* others), populateQuickFilters rebuilds the buttons; the caller renders
LoadDone(l, app, sortedLanguages) ==
  /\ Commit([app EXCEPT !.state.languages = sortedLanguages])
  /\ loads' = [loads EXCEPT ![l] = "over"]
  /\ languageFilter' = [options |-> sortedLanguages, value |-> <<>>]
  /\ quickFilterButtons' =
       populateQuickFilters(app.state, languageOrder', quickFilterButtons)
  /\ Render
  /\ UNCHANGED <<searchInput, display, grid, gridFrame>>

\* response.json() resolves with data: the rest of loadData
JsonResolve(l, data) ==
  /\ l \in DOMAIN loads /\ loads[l] = "json"
  /\ IF ProcessThrows(data)
     THEN /\ LoadCatch(l, App, NullKeysMessage)
          /\ UNCHANGED <<languageOrder, domVars>>
     ELSE /\ languageOrder' = LanguageOrderOf(data)
          /\ IF LoadSucceeds(l, data)
             THEN LoadDone(l, LoadSetState(l, data),
                           SortedLanguages(
                             extractLanguages(processRepositoryData(data, l)),
                             processRepositoryData(data, l)))
             ELSE /\ LoadCatch(l, LoadSetState(l, data), OwnerLoginMessage)
                  /\ UNCHANGED domVars
  /\ UNCHANGED <<debounceTimer, recoveryTimers>>

\* a click on the retry button of the error panel: retry() up to the await
Retry ==
  /\ Started
  /\ display.errorState = "flex"
  /\ Len(loads) < MaxLoads
  /\ LoadStart
  /\ UNCHANGED <<languageOrder, debounceTimer, recoveryTimers, animationFrame, domVars>>

\* an uncaught error or unhandled rejection of some other script or callback
UncaughtError ==
  /\ Started
  /\ recoveryTimers < MaxRecoveryTimers
  /\ HandleGlobalError
  /\ UNCHANGED <<appVars, languageOrder, loads, debounceTimer, animationFrame, domVars>>

\* a recovery timeout that retries whatever the working set holds
RecoveryFireAlways ==
  /\ recoveryTimers > 0
  /\ recoveryTimers' = recoveryTimers - 1
  /\ Len(loads) < MaxLoads
  /\ LoadStart
  /\ UNCHANGED <<languageOrder, debounceTimer, animationFrame, domVars>>

\* the recovery timeout of handleGlobalError fires
RecoveryFire ==
  /\ recoveryTimers > 0
  /\ recoveryTimers' = recoveryTimers - 1
  /\ IF state.repositories = <<>>
     THEN /\ Len(loads) < MaxLoads
          /\ LoadStart
     ELSE UNCHANGED <<appVars, loads>>
  /\ UNCHANGED <<languageOrder, debounceTimer, animationFrame, domVars>>

(***************************************************************************)
(* The handlers of the user's actions.  A handler in which setState throws *)
(* (the search reads the login of a record without owner) ends there: the  *)
(* state is left as setState had it, nothing is rendered, and the error    *)
(* reaches the window's error listener.                                    *)
(***************************************************************************)
\* the end of a handler that called setState and then render()
CommitAndRender(app) ==
  /\ Commit(app)
  /\ IF app.threw
     THEN /\ recoveryTimers < MaxRecoveryTimers
          /\ HandleGlobalError
          /\ UNCHANGED animationFrame
     ELSE /\ Render
          /\ UNCHANGED recoveryTimers

\* a handler without debounce, which searches on every input event
HandleSearchNow(v) ==
  /\ Started
  /\ v # searchInput
  /\ searchInput' = v
  /\ debounceTimer' = NoTimer
  /\ CommitAndRender(setState(App, [searchTerm |-> Trim(v)]))
  /\ UNCHANGED <<languageOrder, loads, languageFilter, quickFilterButtons, display, grid, gridFrame>>

\* an input event of the search box, whose value has become v: handleSearch(v)
HandleSearch(v) ==
  /\ Started
  /\ v # searchInput
  /\ searchInput' = v
  /\ IF Trim(v) = <<>>
     THEN /\ debounceTimer' = NoTimer
          /\ CommitAndRender(setState(App, [searchTerm |-> <<>>]))
     ELSE /\ debounceTimer' = [pending |-> TRUE, term |-> v]
          /\ UNCHANGED <<appVars, animationFrame, recoveryTimers>>
  /\ UNCHANGED <<languageOrder, loads, languageFilter, quickFilterButtons, display, grid, gridFrame>>

\* the debounce timeout fires: the callback handleSearch set
DebounceFire ==
  /\ debounceTimer.pending
  /\ debounceTimer' = NoTimer
  /\ CommitAndRender(setState(App, [searchTerm |-> Trim(debounceTimer.term)]))
  /\ UNCHANGED <<languageOrder, loads, domVars>>

\* a click on the clear button (or Escape in the search box): clearSearch()
ClearSearch ==
  /\ Started
  /\ searchInput' = <<>>
  /\ CommitAndRender(setState(App, [searchTerm |-> <<>>]))
  /\ UNCHANGED <<languageOrder, loads, debounceTimer, languageFilter,
                 quickFilterButtons, display, grid, gridFrame>>

\* select.value = v: the option of that value is selected, or none
SelectValue(options, v) == IF v \in Range(options) THEN v ELSE <<>>

\* a change event of the language dropdown: handleLanguageFilter(language)
HandleLanguageFilter(language) ==
  /\ Started
  /\ language \in Range(languageFilter.options) \cup {<<>>}
  /\ language # languageFilter.value
  /\ languageFilter' = [languageFilter EXCEPT !.value = language]
  /\ CommitAndRender(setState(App, [selectedLanguage |-> language]))
  /\ UNCHANGED <<languageOrder, loads, debounceTimer, searchInput,
                 quickFilterButtons, display, grid, gridFrame>>

\* a click on a quick-filter button: handleQuickFilter(language)
HandleQuickFilter(language) ==
  /\ Started
  /\ language \in Range(quickFilterButtons.buttons)
  /\ languageFilter' = [languageFilter EXCEPT
                          !.value = SelectValue(languageFilter.options, language)]
  /\ quickFilterButtons' = [quickFilterButtons EXCEPT !.active = {language}]
  /\ CommitAndRender(setState(App, [selectedLanguage |-> language]))
  /\ UNCHANGED <<languageOrder, loads, debounceTimer, searchInput, display, grid, gridFrame>>

\* the options of the sort dropdown
SortOptions ==
  {"recent-likes", "stars", "stars-asc", "name", "name-desc", "updated", "created"}

\* a change event of the sort dropdown: handleSort(sortBy)
HandleSort(sortBy) ==
  /\ Started
  /\ sortBy # state.sortBy
  /\ CommitAndRender(setState(App, [sortBy |-> sortBy]))
  /\ UNCHANGED <<languageOrder, loads, debounceTimer, domVars>>

\* a click on the reset button (or Ctrl+R): resetFilters()
ResetFilters ==
  /\ Started
  /\ LET app == setState(App, [searchTerm |-> <<>>, selectedLanguage |-> <<>>,
                               sortBy |-> "recent-likes",
                               languageCategory |-> "recently"])
     IN  /\ CommitAndRender(app)
         /\ quickFilterButtons' =
              populateQuickFilters(app.state, languageOrder,
                                   [quickFilterButtons EXCEPT !.active = {}])
  /\ searchInput' = <<>>
  /\ languageFilter' = [languageFilter EXCEPT !.value = <<>>]
  /\ UNCHANGED <<languageOrder, loads, debounceTimer, display, grid, gridFrame>>

\* the categorization modes
Categories == {"popular", "recently"}

\* a click on a categorization button: handleCategorization(category)
HandleCategorization(category) ==
  /\ Started
  /\ LET app == setState(App, [languageCategory |-> category])
     IN  /\ CommitAndRender(app)
         /\ quickFilterButtons' =
              populateQuickFilters(app.state, languageOrder, quickFilterButtons)
  /\ UNCHANGED <<languageOrder, loads, debounceTimer, searchInput,
                 languageFilter, display, grid, gridFrame>>

(***************************************************************************)
(* The animation frame render() requested: updateUI.                       *)
(***************************************************************************)
updateUI(st) ==
  LET shown == ~st.isLoading /\ st.error = Null
  IN  [loadingState |-> IF st.isLoading THEN "flex" ELSE "none",
       errorState |-> IF st.error # Null THEN "flex" ELSE "none",
       emptyState |-> IF shown /\ Len(st.filteredRepositories) = 0
                      THEN "flex" ELSE "none",
       \* renderSkeletonCards shows the grid again while loading
       repositoryGrid |-> IF st.isLoading
                          \/ (shown /\ Len(st.filteredRepositories) > 0)
                          THEN "grid" ELSE "none",
       statsBar |-> IF shown THEN "block" ELSE "none"]

\* a grouping that leaves the languages in the order of their first record
groupUnsorted(repositories, order, languageCategory) ==
  LET keys == LanguagesInOrder(repositories, {})
  IN  [i \in 1..Len(keys) |->
         [language |-> keys[i], count |-> LanguageCount(repositories, keys[i]),
          repos |-> SelectSeq(repositories, LAMBDA r : r.language = keys[i])]]

\* the language sections renderRepositories builds, with the count each
\* header shows and the records of its cards: the key order of
\* Object.fromEntries(sortedEntries)
groupRepositoriesByLanguage(repositories, order, languageCategory) ==
  LET named == [i \in 1..Len(repositories) |->
                  [language |-> IF repositories[i].language = <<>> THEN LangOther
                                ELSE repositories[i].language]]
      keys == LanguagesInOrder(named, {})
      sorted ==
        IF languageCategory = "recently"
        THEN SortByKeys(keys, [i \in 1..Len(keys) |-> OrderOf(order, keys[i])])
        ELSE SortByKeys(keys, [i \in 1..Len(keys) |->
                                 0 - LanguageCount(named, keys[i])])
  IN  [i \in 1..Len(sorted) |->
         [language |-> sorted[i], count |-> LanguageCount(named, sorted[i]),
          repos |-> SelectSeq(repositories,
                      LAMBDA r : (IF r.language = <<>> THEN LangOther
                                  ELSE r.language) = sorted[i])]]

\* grouped["__proto__"] is Object.prototype, so no array is made for that
\* language and `grouped[language].push(repo)` throws a TypeError
GroupThrows(repositories) ==
  \E i \in 1..Len(repositories) : repositories[i].language = LangProto

\* updateUI calls renderRepositories
ShowsRepositories(st) ==
  ~st.isLoading /\ st.error = Null /\ Len(st.filteredRepositories) > 0

\* renderRepositories: the frame it requests holds the array that is
\* state.filteredRepositories at the request
renderRepositories(st, alias) ==
  [pending |-> TRUE, repos |-> st.filteredRepositories,
   alias |-> IF alias.kind = "own" THEN FrameArray ELSE alias]

\* the contents, when the frame of renderRepositories runs, of the array it
\* holds: the array may have been sorted in place since the request
CapturedArray ==
  CASE gridFrame.alias.kind = "cache" ->
         IF CacheHas(searchCache, gridFrame.alias.key)
         THEN CacheGet(searchCache, gridFrame.alias.key) ELSE gridFrame.repos
    [] gridFrame.alias.kind = "repos" ->
         IF state.repositories # <<>>
              /\ state.repositories[1].gen = gridFrame.repos[1].gen
         THEN state.repositories ELSE gridFrame.repos
    [] OTHER ->
         IF filteredAlias = FrameArray THEN state.filteredRepositories
         ELSE gridFrame.repos

\* the callbacks of one animation frame, in the order of their requests: the
\* one renderRepositories requested in the frame before, which writes the
\* sections of the grid, then the one of render, whose updateUI writes the
\* skeleton cards while loading and calls renderRepositories when there are
\* records to show
FrameFire ==
  /\ animationFrame \/ gridFrame.pending
  /\ animationFrame' = FALSE
  /\ display' = IF animationFrame THEN updateUI(state) ELSE display
  /\ grid' = IF animationFrame /\ state.isLoading THEN <<>>
             ELSE IF gridFrame.pending /\ ~GroupThrows(CapturedArray)
                  THEN groupRepositoriesByLanguage(CapturedArray, languageOrder,
                                                   state.languageCategory)
                  ELSE grid
  /\ gridFrame' = IF animationFrame /\ ShowsRepositories(state)
                  THEN renderRepositories(state, filteredAlias)
                  ELSE NoGridFrame
  /\ filteredAlias' = IF animationFrame /\ ShowsRepositories(state)
                      THEN renderRepositories(state, filteredAlias).alias
                      ELSE IF filteredAlias = FrameArray THEN OwnArray
                           ELSE filteredAlias
  \* a callback of renderRepositories that throws reaches the window's
  \* error listener
  /\ IF gridFrame.pending /\ GroupThrows(CapturedArray)
     THEN recoveryTimers < MaxRecoveryTimers /\ HandleGlobalError
     ELSE UNCHANGED recoveryTimers
  /\ UNCHANGED <<state, searchCache, searchScore, languageOrder, loads,
                 debounceTimer, searchInput, languageFilter, quickFilterButtons>>

(***************************************************************************)
(* The inputs of the model and its specifications.  Spec lets the user and *)
(* the server do everything; the other specifications are Spec with the    *)
(* environment restricted to the part of the behaviour a group of          *)
(* properties is about, so that the reachable states can be enumerated.    *)
(***************************************************************************)
\* the values the search box takes
SearchInputs == {<<>>, <<" ", "b">>, <<"x">>, <<"o", "/", "a">>}

\* the bodies data.json has
Payloads == {PayloadA, PayloadB, PayloadG, PayloadEmpty, PayloadNull,
             PayloadNumber, PayloadString, PayloadBoolean}

LoadIds == 1..MaxLoads

Next ==
  \/ InitApp
  \/ \E l \in LoadIds : FetchOk(l)
  \/ \E l \in LoadIds : FetchHttpError(l)
  \/ \E l \in LoadIds : FetchReject(l)
  \/ \E l \in LoadIds : JsonReject(l)
  \/ \E l \in LoadIds : \E data \in Payloads : JsonResolve(l, data)
  \/ Retry
  \/ UncaughtError
  \/ RecoveryFire
  \/ \E v \in SearchInputs : HandleSearch(v)
  \/ DebounceFire
  \/ ClearSearch
  \/ \E language \in Range(languageFilter.options) \cup {<<>>} :
       HandleLanguageFilter(language)
  \/ \E language \in Range(quickFilterButtons.buttons) : HandleQuickFilter(language)
  \/ \E sortBy \in SortOptions : HandleSort(sortBy)
  \/ ResetFilters
  \/ \E category \in Categories : HandleCategorization(category)
  \/ FrameFire

Spec == Init /\ [][Next]_vars

\* the loads alone: every payload, every failure, overlapping retries
NextLoad ==
  \/ InitApp
  \/ \E l \in LoadIds : FetchOk(l)
  \/ \E l \in LoadIds : FetchHttpError(l)
  \/ \E l \in LoadIds : FetchReject(l)
  \/ \E l \in LoadIds : JsonReject(l)
  \/ \E l \in LoadIds : \E data \in Payloads : JsonResolve(l, data)
  \/ Retry
  \/ UncaughtError
  \/ RecoveryFire
  \/ FrameFire

SpecLoad == Init /\ [][NextLoad]_vars

\* the loads the page and the retry button start, with the sort dropdown, where
\* what the event loop guarantees happens: the document gets loaded and a
\* requested frame fires.  The server owes no answer, and the user no click.
NextFetch ==
  \/ InitApp
  \/ \E l \in LoadIds : FetchOk(l)
  \/ \E l \in LoadIds : FetchHttpError(l)
  \/ \E l \in LoadIds : FetchReject(l)
  \/ \E l \in LoadIds : JsonReject(l)
  \/ \E l \in LoadIds : \E data \in Payloads : JsonResolve(l, data)
  \/ Retry
  \/ \E sortBy \in SortOptions : HandleSort(sortBy)
  \/ FrameFire

FairSpecFetch ==
  /\ Init /\ [][NextFetch]_vars
  /\ WF_vars(InitApp)
  /\ WF_vars(FrameFire)

\* the first load, with the data or without an answer yet, and the sort and
\* category controls
ViewPayloads == {PayloadA, PayloadG, PayloadEmpty}

\* the values handleSort is called with: the seven keys of the switch and
\* one value that matches no case
ViewSorts == SortOptions \cup {"rating"}

NextView ==
  \/ InitApp
  \/ FetchOk(1)
  \/ FetchReject(1)
  \/ \E data \in ViewPayloads : JsonResolve(1, data)
  \/ \E sortBy \in ViewSorts : HandleSort(sortBy)
  \/ \E category \in Categories : HandleCategorization(category)
  \/ FrameFire

SpecView == Init /\ [][NextView]_vars

\* the datasets the search is tried on
SearchPayloads == {PayloadA, PayloadB}

\* one load that succeeds, then the search box alone
NextInput ==
  \/ InitApp
  \/ FetchOk(1)
  \/ \E data \in SearchPayloads : JsonResolve(1, data)
  \/ \E v \in SearchInputs : HandleSearch(v)
  \/ DebounceFire
  \/ RecoveryFire
  \/ FrameFire

SpecInput == Init /\ [][NextInput]_vars

\* the search box with the controls that empty it
NextSearch ==
  \/ InitApp
  \/ FetchOk(1)
  \/ \E data \in SearchPayloads : JsonResolve(1, data)
  \/ \E v \in SearchInputs : HandleSearch(v)
  \/ DebounceFire
  \/ ClearSearch
  \/ ResetFilters
  \/ RecoveryFire
  \/ FrameFire

SpecSearch == Init /\ [][NextSearch]_vars

\* a search typed while the dataset is loaded, and loaded again
ReloadInputs == {<<" ", "b">>, <<"x">>}

NextReload ==
  \/ InitApp
  \/ \E l \in LoadIds : FetchOk(l)
  \/ \E l \in LoadIds : \E data \in SearchPayloads : JsonResolve(l, data)
  \/ Retry
  \/ UncaughtError
  \/ RecoveryFire
  \/ \E v \in ReloadInputs : HandleSearch(v)
  \/ DebounceFire
  \/ FrameFire

SpecReload == Init /\ [][NextReload]_vars

\* the first load and every control of the filter bar; the animation frames,
\* which write the view only, are left pending
FilterPayloads == {PayloadB, PayloadG}
FilterInputs == {<<"x">>, <<"x", " ">>}

NextFilter ==
  \/ InitApp
  \/ FetchOk(1)
  \/ \E data \in FilterPayloads : JsonResolve(1, data)
  \/ \E v \in FilterInputs : HandleSearch(v)
  \/ DebounceFire
  \/ \E language \in Range(languageFilter.options) \cup {<<>>} :
       HandleLanguageFilter(language)
  \/ \E language \in Range(quickFilterButtons.buttons) : HandleQuickFilter(language)
  \/ \E sortBy \in SortOptions : HandleSort(sortBy)
  \/ ResetFilters
  \/ RecoveryFire

SpecFilter == Init /\ [][NextFilter]_vars

\* the first load and every control of the page, with one search input and
\* two of the sort options
ControlInputs == {<<"x">>}
ControlSorts == {"recent-likes", "stars-asc"}

NextControls ==
  \/ InitApp
  \/ FetchOk(1)
  \/ \E data \in FilterPayloads : JsonResolve(1, data)
  \/ \E v \in ControlInputs : HandleSearch(v)
  \/ DebounceFire
  \/ ClearSearch
  \/ \E language \in Range(languageFilter.options) \cup {<<>>} :
       HandleLanguageFilter(language)
  \/ \E language \in Range(quickFilterButtons.buttons) : HandleQuickFilter(language)
  \/ \E sortBy \in ControlSorts : HandleSort(sortBy)
  \/ \E category \in Categories : HandleCategorization(category)
  \/ ResetFilters
  \/ RecoveryFire
  \/ FrameFire

SpecControls == Init /\ [][NextControls]_vars

\* the first load with the payloads of several languages, and the controls
\* that order the language groups
GroupPayloads == {PayloadA, PayloadL, PayloadWide}

NextGroups ==
  \/ InitApp
  \/ FetchOk(1)
  \/ \E data \in GroupPayloads : JsonResolve(1, data)
  \/ \E language \in Range(languageFilter.options) \cup {<<>>} :
       HandleLanguageFilter(language)
  \/ \E sortBy \in ControlSorts : HandleSort(sortBy)
  \/ \E category \in Categories : HandleCategorization(category)
  \/ FrameFire

SpecGroups == Init /\ [][NextGroups]_vars

\* one load of a dataset whose records match in each of the scored fields,
\* and searches of one and of two terms
ScorePayloads == {PayloadL}
ScoreInputs == {<<"x">>, <<"G", "o", " ", "u">>, <<"o", "/", "a">>}

NextScore ==
  \/ InitApp
  \/ FetchOk(1)
  \/ \E data \in ScorePayloads : JsonResolve(1, data)
  \/ \E v \in ScoreInputs : HandleSearch(v)
  \/ DebounceFire
  \/ FrameFire

SpecScore == Init /\ [][NextScore]_vars

\* the loads of the page and of the recovery, of records of several
\* languages or of a language that names a property every object inherits
\* ({"__proto__": [ka], "Go": [gx]} is the object among them), with the
\* language filter and the sort
KeyPayloads ==
  {PayloadL, PayloadP,
   ObjectPayload(<<Group(LangProto, TRUE, <<RepoKa>>),
                   Group(LangGo, TRUE, <<RepoGx>>)>>)}

NextKeys ==
  \/ InitApp
  \/ \E l \in LoadIds : FetchOk(l)
  \/ \E l \in LoadIds : \E data \in KeyPayloads : JsonResolve(l, data)
  \/ \E language \in Range(languageFilter.options) \cup {<<>>} :
       HandleLanguageFilter(language)
  \/ \E sortBy \in ControlSorts : HandleSort(sortBy)
  \/ UncaughtError
  \/ RecoveryFire
  \/ FrameFire

SpecKeys == Init /\ [][NextKeys]_vars

\* the loads the page and the recovery of handleGlobalError start, without
\* the retry button: the errors are those of other scripts and those of a
\* search that throws
NextRecovery ==
  \/ InitApp
  \/ \E l \in LoadIds : FetchOk(l)
  \/ \E l \in LoadIds : FetchHttpError(l)
  \/ \E l \in LoadIds : FetchReject(l)
  \/ \E l \in LoadIds : JsonReject(l)
  \/ \E l \in LoadIds : \E data \in Payloads : JsonResolve(l, data)
  \/ \E v \in ControlInputs : HandleSearch(v)
  \/ DebounceFire
  \/ UncaughtError
  \/ RecoveryFire
  \/ FrameFire

SpecRecovery == Init /\ [][NextRecovery]_vars

(***************************************************************************)
(* Properties of the load.                                                 *)
(***************************************************************************)
\* an entry of data.json with a truthy identifier and a truthy name
HasIdAndName(raw) == ~raw.nil /\ raw.id # 0 /\ raw.name # <<>>

\* how many entries of a sequence have the identifier and the name of raw
CountOf(seq, raw) ==
  Cardinality({i \in DOMAIN seq : seq[i].id = raw.id /\ seq[i].name = raw.name})

\* the working set is the valid entries of the flattened payload, each as
\* many times as the payload has it
IsValidEntriesOf(repositories, flat) ==
  /\ \A i \in DOMAIN repositories :
       repositories[i].id # 0 /\ repositories[i].name # <<>>
  /\ Len(repositories) = Cardinality({j \in DOMAIN flat : HasIdAndName(flat[j])})
  /\ \A j \in DOMAIN flat :
       HasIdAndName(flat[j]) =>
         CountOf(repositories, flat[j])
           = Cardinality({k \in DOMAIN flat :
                            /\ HasIdAndName(flat[k])
                            /\ flat[k].id = flat[j].id
                            /\ flat[k].name = flat[j].name})

\* C1: after any successful load, state.repositories holds exactly the input
\* entries that have both a truthy identifier and a truthy name: an entry
\* lacking either is absent, an entry having both is neither dropped nor
\* duplicated.
C1_WorkingSetIsValidEntries ==
  [][\A l \in LoadIds : \A data \in Payloads :
       JsonResolve(l, data) /\ LoadSucceeds(l, data)
         => IsValidEntriesOf(state'.repositories, FlattenPayload(data))]_vars

\* a load of PayloadB has succeeded: of its five entries the two valid ones
\* are the working set
C1_Witness ==
  /\ ~state.isLoading
  /\ state.error = Null
  /\ Len(state.repositories) = 2
  /\ \E i \in DOMAIN state.repositories : state.repositories[i].id = 3
  /\ \E i \in DOMAIN state.repositories : state.repositories[i].id = 4

\* C3: when a load completes successfully the application is in the ready
\* state, isLoading = false and error = null, whatever the interleaving of
\* load starts and completions.
C3_LoadSuccessIsReady ==
  [][\A l \in LoadIds : \A data \in Payloads :
       JsonResolve(l, data) /\ LoadSucceeds(l, data)
         => ~state'.isLoading /\ state'.error = Null]_vars

\* a load has succeeded, the data is there, and the error of another load is
\* still set
C3_Witness ==
  /\ \A l \in DOMAIN loads : loads[l] = "over"
  /\ state.repositories # <<>>
  /\ ~state.isLoading
  /\ state.error # Null

\* C7: every started load eventually leaves the loading state, even if the
\* fetch is never answered.
C7_LoadingEnds == (Started /\ state.isLoading) ~> ~state.isLoading

\* the parsed payloads that are neither an array nor an object of arrays
MalformedPayloads == {PayloadNull, PayloadNumber, PayloadString, PayloadBoolean}

\* C8: for every parsed payload that is neither an array nor a key-to-array
\* object (null, a number, a string, a boolean) the load completes with an
\* empty working set, isLoading = false and error = null.
C8_MalformedPayloadIsEmpty ==
  [][\A l \in LoadIds : \A data \in MalformedPayloads :
       JsonResolve(l, data)
         => /\ state'.repositories = <<>>
            /\ ~state'.isLoading
            /\ state'.error = Null]_vars

\* the load of null has ended in the error state
C8_Witness ==
  /\ ~state.isLoading
  /\ state.error = NullKeysMessage
  /\ state.repositories = <<>>

\* C6: after a successful reload every entry of state.filteredRepositories
\* is an entry (has the identifier of an entry) of the newly loaded
\* state.repositories, also when a search term is active during the reload
\* and the new dataset is as long as the old one.
C6_ViewWithinNewLoad ==
  [][\A l \in LoadIds : \A data \in SearchPayloads :
       JsonResolve(l, data) /\ LoadSucceeds(l, data) /\ state.repositories # <<>>
         => \A i \in DOMAIN state'.filteredRepositories :
              \E j \in DOMAIN state'.repositories :
                state'.repositories[j].id = state'.filteredRepositories[i].id]_vars

\* two loads are over, and the view holds an entry the working set has not
C6_Witness ==
  /\ Len(loads) = 2
  /\ \A l \in DOMAIN loads : loads[l] = "over"
  /\ state.error = Null
  /\ \E i \in DOMAIN state.filteredRepositories :
       \A j \in DOMAIN state.repositories :
         state.repositories[j].id # state.filteredRepositories[i].id

(***************************************************************************)
(* Properties of the view.                                                 *)
(***************************************************************************)
Regions == {"loadingState", "errorState", "emptyState", "repositoryGrid"}

ContainsEveryTerm(repo, searchTerm) ==
  \A t \in Range(TermsOf(searchTerm)) : Includes(repo.searchText, t)

\* C2: for every repository of the working set and every non-empty search
\* term, the search pass (when it comes to its end) retains the repository
\* if and only if every term is a substring of its searchText.
C2_RetainedIffAllTerms ==
  [][DebounceFire /\ recoveryTimers' = recoveryTimers /\ state'.searchTerm # <<>>
       => \A i \in DOMAIN state'.repositories :
            (\E j \in DOMAIN state'.filteredRepositories :
               state'.filteredRepositories[j] = state'.repositories[i])
              <=> ContainsEveryTerm(state'.repositories[i], state'.searchTerm)]_vars

\* C4: whenever no debounce timer is pending, the trimmed value of the search
\* box equals state.searchTerm; so after clearSearch or resetFilters the
\* term stays '' until the next input event.
C4_BoxMatchesSearchTerm ==
  ~debounceTimer.pending => Trim(searchInput) = state.searchTerm

\* C9: every search over a working set whose entries lack optional fields
\* completes without raising an error, and leaves in filteredRepositories
\* only entries that match the new searchTerm.
C9_SearchCompletes ==
  [][DebounceFire \/ (\E v \in SearchInputs : HandleSearch(v))
       => /\ recoveryTimers' = recoveryTimers
          /\ \A i \in DOMAIN state'.filteredRepositories :
               ContainsEveryTerm(state'.filteredRepositories[i],
                                 state'.searchTerm)]_vars

\* the search for "x" has raised: the term is set, the view is still the whole
\* working set, and the recovery timeout of the error listener is running
C9_Witness ==
  /\ recoveryTimers > 0
  /\ state.searchTerm = <<"x">>
  /\ state.repositories # <<>>
  /\ state.filteredRepositories = state.repositories

\* C5 as stated: of a burst of inputs only the final one is applied, when
\* the delay has elapsed.  So an input that arrives while the delay of the
\* previous one is running, an empty one included, is not applied by its
\* input event: a later input of the burst may still supersede it.
C5_OnlyFinalInputApplied ==
  [][(\E v \in SearchInputs : HandleSearch(v)) /\ debounceTimer.pending
       => state'.searchTerm = state.searchTerm]_vars

\* C5, amended: an input that is not empty once trimmed is never applied by
\* its input event, and the timer applies the trimmed latest input; an input
\* that is empty once trimmed is applied at once, searchTerm = '', and
\* cancels the pending pass.
C5_NonEmptyInputsDebounced ==
  [][(\A v \in SearchInputs :
        HandleSearch(v) =>
          (IF Trim(v) = <<>>
           THEN (state'.searchTerm = <<>> /\ ~debounceTimer'.pending)
           ELSE (state'.searchTerm = state.searchTerm /\ debounceTimer'.pending)))
     /\ (DebounceFire =>
           (state'.searchTerm = Trim(searchInput) /\ ~debounceTimer'.pending))]_vars

\* a search has been applied and the input that followed it is pending, not
\* applied
C5_Witness ==
  /\ debounceTimer.pending
  /\ state.searchTerm # <<>>
  /\ Trim(searchInput) # state.searchTerm
  /\ Trim(searchInput) # <<>>

(***************************************************************************)
(* Properties of the filter and sort pipeline.                             *)
(***************************************************************************)
\* the comparator of sortBy puts a strictly before b
ComesBefore(a, b, sortBy) ==
  CASE sortBy = "recent-likes" -> a.originalIndex < b.originalIndex
    [] sortBy = "stars" -> a.stargazers_count > b.stargazers_count
    [] sortBy = "stars-asc" -> a.stargazers_count < b.stargazers_count
    [] sortBy = "name" -> LocaleLess(a.name, b.name)
    [] sortBy = "name-desc" -> LocaleLess(b.name, a.name)
    [] sortBy = "updated" -> a.updated_at > b.updated_at
    [] sortBy = "created" -> a.created_at > b.created_at

\* no entry of the list comes after one the comparator puts it before
OrderedBy(repos, sortBy) ==
  \A i \in DOMAIN repos : \A j \in DOMAIN repos :
    i < j => ~ComesBefore(repos[j], repos[i], sortBy)

\* a search is applied (the debounced one, or the immediate empty one)
SearchApplied ==
  \/ DebounceFire
  \/ \E v \in SearchInputs \cup FilterInputs : Trim(v) = <<>> /\ HandleSearch(v)

\* a language is selected, in the dropdown or by a quick-filter button
LanguageSelected ==
  \/ \E language \in Range(languageFilter.options) \cup {<<>>} :
       HandleLanguageFilter(language)
  \/ \E language \in Range(quickFilterButtons.buttons) : HandleQuickFilter(language)

\* C11: after every search, language-filter, quick-filter, sort and reset
\* action, state.filteredRepositories is ordered by the comparator of the
\* current sortBy, for each of the seven keys.
C11_FilteredIsSorted ==
  [][(SearchApplied \/ LanguageSelected \/ ResetFilters
        \/ (\E sortBy \in SortOptions : HandleSort(sortBy)))
       => OrderedBy(state'.filteredRepositories, state'.sortBy)]_vars

\* C12: with both a search term and a selected language active,
\* state.filteredRepositories holds exactly the working-set entries that
\* satisfy the search predicate (every term is in the searchText) and whose
\* language is equal to selectedLanguage.
C12_SearchAndLanguage ==
  state.searchTerm # <<>> /\ state.selectedLanguage # <<>>
    => Range(state.filteredRepositories)
         = {repo \in Range(state.repositories) :
              /\ ContainsEveryTerm(repo, state.searchTerm)
              /\ repo.language = state.selectedLanguage}

(***************************************************************************)
(* Properties of originalIndex and the order after a load.                 *)
(***************************************************************************)
\* the valid entries of a payload, in source order
ValidInSourceOrder(data) == SelectSeq(FlattenPayload(data), HasIdAndName)

\* entry is the input entry raw
IsEntryOf(entry, raw) == entry.id = raw.id /\ entry.name = raw.name

\* every originalIndex is the position (from 0) of the entry among the valid
\* entries in source order, and no two entries share one
IndexIsSourcePosition(repositories, valid) ==
  /\ Len(repositories) = Len(valid)
  /\ \A i \in DOMAIN repositories :
       /\ repositories[i].originalIndex \in 0..(Len(valid) - 1)
       /\ IsEntryOf(repositories[i], valid[repositories[i].originalIndex + 1])
  /\ \A i \in DOMAIN repositories : \A j \in DOMAIN repositories :
       i # j => repositories[i].originalIndex # repositories[j].originalIndex

\* the list shows the valid entries in source order
IsSourceOrder(repos, valid) ==
  /\ Len(repos) = Len(valid)
  /\ \A i \in DOMAIN repos : IsEntryOf(repos[i], valid[i])

\* the star counts of the list never increase
StarsDescending(repos) ==
  \A i \in DOMAIN repos : \A j \in DOMAIN repos :
    i < j => repos[i].stargazers_count >= repos[j].stargazers_count

\* C13: after a load each entry's originalIndex is its position in the
\* flattened list of valid entries (distinct, covering 0..n-1); with sortBy
\* recent-likes the displayed order is the source order, and switching to
\* stars yields descending star count.
C13_OriginalIndexIsSourcePosition ==
  [][(\A data \in Payloads :
        JsonResolve(1, data) /\ LoadSucceeds(1, data) =>
          (/\ IndexIsSourcePosition(state'.repositories, ValidInSourceOrder(data))
           /\ (state'.sortBy = "recent-likes" =>
                 IsSourceOrder(state'.filteredRepositories,
                               ValidInSourceOrder(data)))))
     /\ (HandleSort("stars") => StarsDescending(state'.filteredRepositories))]_vars

\* [ab: 5 stars, Ba: 50 stars] is shown in source order, and is not in
\* star order
C13_Witness ==
  /\ ~state.isLoading
  /\ state.sortBy = "recent-likes"
  /\ Len(state.filteredRepositories) = 2
  /\ state.filteredRepositories[1].originalIndex = 0
  /\ state.filteredRepositories[1].stargazers_count = 5
  /\ state.filteredRepositories[2].stargazers_count = 50

\* C14 as stated: the entries are sorted by stars before originalIndex is
\* assigned, so that right after a load the recent-likes order (ascending
\* originalIndex) is also a descending star order.
C14_IndexFollowsStars ==
  [][\A data \in Payloads :
       JsonResolve(1, data) /\ LoadSucceeds(1, data) =>
         \A i \in DOMAIN state'.repositories :
           \A j \in DOMAIN state'.repositories :
             state'.repositories[i].originalIndex
               < state'.repositories[j].originalIndex
             => state'.repositories[i].stargazers_count
                  >= state'.repositories[j].stargazers_count]_vars

\* C14, amended: the entries are sorted once, descending by star count,
\* after originalIndex is assigned: right after a load the working set is
\* in descending star order, entries of equal stars in source order.
C14_SortedAfterIndexing ==
  [][\A data \in Payloads :
       JsonResolve(1, data) /\ LoadSucceeds(1, data) =>
         \A i \in DOMAIN state'.repositories :
           \A j \in DOMAIN state'.repositories :
             i < j =>
               \/ state'.repositories[i].stargazers_count
                    > state'.repositories[j].stargazers_count
               \/ (/\ state'.repositories[i].stargazers_count
                        = state'.repositories[j].stargazers_count
                   /\ state'.repositories[i].originalIndex
                        < state'.repositories[j].originalIndex)]_vars

\* the working set of [ab: 5 stars, Ba: 50 stars] right after the load: the
\* entry of 50 stars first, with originalIndex 1
C14_Witness ==
  /\ ~state.isLoading
  /\ Len(state.repositories) = 2
  /\ state.repositories[1].stargazers_count = 50
  /\ state.repositories[1].originalIndex = 1
  /\ state.repositories[2].originalIndex = 0

(***************************************************************************)
(* Properties of the failures.                                             *)
(***************************************************************************)
\* the three messages of the categories
TimeoutMessage == "Request timed out. Please check your connection and try again."
ServerErrorMessage == "Server error. Please try again later."
GenericMessage == "Failed to load repository data"

\* load l fails
LoadFails(l) ==
  \/ FetchHttpError(l)
  \/ FetchReject(l)
  \/ JsonReject(l)
  \/ \E data \in Payloads : JsonResolve(l, data) /\ ~LoadSucceeds(l, data)

\* C15: on every load failure, of the initial load or of a retry,
\* state.error is one of the three fixed messages, chosen by the category of
\* the failure: the server-error message for a non-success HTTP status, the
\* timeout message for a cancelled fetch, the generic message otherwise.
C15_ErrorIsCategorized ==
  [][\A l \in LoadIds :
       /\ LoadFails(l) =>
            state'.error \in {TimeoutMessage, ServerErrorMessage, GenericMessage}
       /\ FetchHttpError(l) => state'.error = ServerErrorMessage]_vars

\* a load has failed on the HTTP status and the error is the message of the
\* exception
C15_Witness ==
  /\ ~state.isLoading
  /\ state.error = HttpErrorMessage

(***************************************************************************)
(* Properties of the controls.                                             *)
(***************************************************************************)
\* a step of one of the handlers of the user's controls: the search box, the
\* clear button, the language dropdown, the quick-filter buttons, the sort
\* dropdown, the categorization buttons, the reset button
UserAction ==
  \/ \E v \in SearchInputs : HandleSearch(v)
  \/ DebounceFire
  \/ ClearSearch
  \/ \E language \in Range(languageFilter.options) \cup {<<>>} :
       HandleLanguageFilter(language)
  \/ \E language \in Range(quickFilterButtons.buttons) : HandleQuickFilter(language)
  \/ \E sortBy \in SortOptions : HandleSort(sortBy)
  \/ \E category \in Categories : HandleCategorization(category)
  \/ ResetFilters

\* C16: a user action (search, clear, language selection, quick filter, sort,
\* categorization, reset) starts no load and leaves state.repositories, in
\* membership and in order, state.isLoading and state.error as they were.
C16_UserActionsKeepWorkingSet ==
  [][UserAction =>
       (/\ loads' = loads
        /\ state'.repositories = state.repositories
        /\ state'.isLoading = state.isLoading
        /\ state'.error = state.error)]_vars

\* a quick-filter click, a selection in the language dropdown, a change of
\* categorization or a reset
FilterControlAction ==
  \/ \E language \in Range(quickFilterButtons.buttons) : HandleQuickFilter(language)
  \/ \E language \in Range(languageFilter.options) \cup {<<>>} :
       HandleLanguageFilter(language)
  \/ \E category \in Categories : HandleCategorization(category)
  \/ ResetFilters

\* C17: after a quick-filter click, a language-dropdown selection, a
\* categorization change or a reset, a quick-filter button is marked active
\* if and only if its language is state.selectedLanguage.
C17_ActiveButtonIsSelectedLanguage ==
  [][FilterControlAction =>
       \A language \in Range(quickFilterButtons'.buttons) :
         (language \in quickFilterButtons'.active)
           <=> (language = state'.selectedLanguage)]_vars

(***************************************************************************)
(* Properties of the recovery.                                             *)
(***************************************************************************)
\* C18: a recovery timeout starts at most one load, and only when the working
\* set is empty as it fires; no load starts otherwise but the first; the
\* failure of a load the recovery started sets no recovery timeout.
C18_OneRetryPerError ==
  [][(/\ (recoveryTimers' < recoveryTimers =>
            (/\ recoveryTimers' = recoveryTimers - 1
             /\ Len(loads') <= Len(loads) + 1))
      /\ (Len(loads') > Len(loads) =>
            (\/ loads = <<>>
             \/ (/\ recoveryTimers' = recoveryTimers - 1
                 /\ state.repositories = <<>>)))
      /\ (\A l \in LoadIds \ {1} :
            LoadFails(l) => (/\ recoveryTimers' = recoveryTimers
                             /\ Len(loads') = Len(loads))))]_vars

\* the load the recovery started has failed, and no recovery is pending
C18_Witness ==
  /\ Len(loads) >= 2
  /\ loads[2] = "over"
  /\ state.error # Null
  /\ state.repositories = <<>>
  /\ recoveryTimers = 0

(***************************************************************************)
(* Properties of the language groups.                                      *)
(***************************************************************************)
\* the position of the first record of a language in a list
FirstIndex(repos, language) ==
  CHOOSE i \in 1..Len(repos) :
    /\ repos[i].language = language
    /\ \A j \in 1..(i - 1) : repos[j].language # language

\* the languages of the sections of a grid
SectionLanguages(sections) == [i \in 1..Len(sections) |-> sections[i].language]

\* languages are those of repos, by non-increasing count, the languages of
\* equal count in the order of their first records
PopularOrder(languages, repos) ==
  /\ \A i \in 1..Len(languages) : LanguageCount(repos, languages[i]) > 0
  /\ \A i, j \in 1..Len(languages) :
       i < j =>
         \/ LanguageCount(repos, languages[i]) > LanguageCount(repos, languages[j])
         \/ /\ LanguageCount(repos, languages[i]) = LanguageCount(repos, languages[j])
            /\ FirstIndex(repos, languages[i]) < FirstIndex(repos, languages[j])

\* the frame of renderRepositories writes the sections of the records of
\* the array it holds
GridRendered ==
  /\ FrameFire
  /\ gridFrame.pending
  /\ ~(animationFrame /\ state.isLoading)

\* populateQuickFilters rebuilds the buttons: a load succeeds or the
\* categorization changes, with a working set that has records
ButtonsRebuilt ==
  /\ \/ \E category \in Categories : HandleCategorization(category)
     \/ \E l \in LoadIds : \E data \in Payloads \cup GroupPayloads :
          JsonResolve(l, data) /\ LoadSucceeds(l, data)
  /\ state'.repositories # <<>>

\* C19: in popular mode the sections of the grid are the languages of the
\* displayed list, and the quick-filter buttons languages of the working set,
\* by non-increasing count, equal counts in first-appearance order.
C19_PopularByCount ==
  [][(/\ (GridRendered /\ state.languageCategory = "popular") =>
            (/\ PopularOrder(SectionLanguages(grid'), CapturedArray)
             /\ \A i \in 1..Len(CapturedArray) :
                  CapturedArray[i].language
                    \in Range(SectionLanguages(grid'))
             /\ \A i \in 1..Len(grid') :
                  grid'[i].count = LanguageCount(CapturedArray,
                                                 grid'[i].language))
      /\ (ButtonsRebuilt /\ state'.languageCategory = "popular") =>
            PopularOrder(quickFilterButtons'.buttons, state'.repositories))]_vars

\* popular mode, three sections in the grid, the first larger than the other
\* two, which are equal, and three buttons, of which the first is the
\* language of the first section
C19_Witness ==
  /\ state.languageCategory = "popular"
  /\ Len(grid) = 3
  /\ grid[1].count > grid[2].count
  /\ grid[2].count = grid[3].count
  /\ Len(quickFilterButtons.buttons) = 3
  /\ quickFilterButtons.buttons[1] = grid[1].language

\* languages are by ascending position in order, those without position last
RecentOrder(languages, order) ==
  \A i, j \in 1..Len(languages) :
    i < j =>
      /\ (languages[i] \in DOMAIN order /\ languages[j] \in DOMAIN order)
           => order[languages[i]] < order[languages[j]]
      /\ languages[j] \in DOMAIN order => languages[i] \in DOMAIN order

\* C20: in recently mode the sections of the grid and the quick-filter
\* buttons are by ascending languageOrder position, and a language that
\* languageOrder does not hold comes after every language it holds.
C20_RecentByLanguageOrder ==
  [][(/\ (GridRendered /\ state.languageCategory = "recently") =>
            RecentOrder(SectionLanguages(grid'), languageOrder)
      /\ (ButtonsRebuilt /\ state'.languageCategory = "recently") =>
            RecentOrder(quickFilterButtons'.buttons, languageOrder'))]_vars

\* recently mode, the grid rendered with a language languageOrder holds and
\* one it does not hold
C20_Witness ==
  /\ state.languageCategory = "recently"
  /\ \E i, j \in 1..Len(grid) :
       /\ grid[i].language \in DOMAIN languageOrder
       /\ grid[j].language \notin DOMAIN languageOrder

(***************************************************************************)
(* Properties of the search results.                                       *)
(***************************************************************************)
\* no record of the working set holds every term of the search term in its
\* searchText
MatchesNothing(repositories, searchTerm) ==
  /\ searchTerm # <<>>
  /\ \A i \in 1..Len(repositories) :
       ~HasAllTerms(repositories[i], TermsOf(searchTerm))

\* C21: a search whose term matches no searchText of the working set leaves
\* state.filteredRepositories empty and error null, and the UI update that
\* follows shows the empty-results region and hides the grid and the error
\* panel.
C21_NoMatchShowsEmpty ==
  [][(/\ (/\ DebounceFire
          /\ state.error = Null
          /\ MatchesNothing(state'.repositories, state'.searchTerm))
            => (/\ state'.filteredRepositories = <<>>
                /\ state'.error = Null)
      /\ (/\ FrameFire
          /\ animationFrame
          /\ ~state.isLoading
          /\ state.error = Null
          /\ MatchesNothing(state.repositories, state.searchTerm))
            => (/\ display'.emptyState = "flex"
                /\ display'.repositoryGrid = "none"
                /\ display'.errorState = "none"))]_vars

(***************************************************************************)
(* Properties of overlapping loads and of the retry.                       *)
(***************************************************************************)
\* a started load has neither succeeded nor failed
LoadInFlight == \E l \in DOMAIN loads : loads[l] # "over"

\* C22: once the page has started, isLoading is true exactly while a load is
\* in flight, for every interleaving of overlapping loads.
C22_LoadingWhileInFlight == Started => (state.isLoading <=> LoadInFlight)

\* two loads have started, one is over and the other is in flight
C22_Witness ==
  /\ Len(loads) >= 2
  /\ LoadInFlight
  /\ \E l \in DOMAIN loads : loads[l] = "over"

(***************************************************************************)
(* Properties of the memoized search.                                      *)
(***************************************************************************)
\* a call of the memoized search returns what the search itself returns on
\* the same list and term (when the search returns)
SearchCallAgrees(repositories, searchTerm, cache, scores) ==
  ~performAdvancedSearch(repositories, searchTerm, scores).threw
    => memoizedSearch(repositories, searchTerm, cache, scores).kept
         = performAdvancedSearch(repositories, searchTerm, scores).kept

\* C23: every call of the memoized search, made by a search, by a language
\* selection or by a load while a term is active, returns the sequence a
\* fresh performAdvancedSearch returns on the same repositories and term.
C23_MemoizedSearchIsSearch ==
  [][(/\ (DebounceFire /\ Trim(debounceTimer.term) # <<>>)
            => SearchCallAgrees(state.repositories, Trim(debounceTimer.term),
                                searchCache, searchScore)
      /\ (/\ \E language \in Range(languageFilter.options) \cup {<<>>} :
               HandleLanguageFilter(language)
          /\ state.searchTerm # <<>>)
            => SearchCallAgrees(state.repositories, state.searchTerm,
                                searchCache, searchScore)
      /\ (\A l \in LoadIds : \A data \in Payloads :
            (JsonResolve(l, data) /\ ~ProcessThrows(data) /\ state.searchTerm # <<>>)
              => SearchCallAgrees(processRepositoryData(data, l), state.searchTerm,
                                  searchCache, searchScore)))]_vars

\* the search pass of a search for the term the debounce timer holds returns
SearchPassReturns ==
  /\ DebounceFire
  /\ state'.searchTerm # <<>>
  /\ ~memoizedSearch(state.repositories, state'.searchTerm,
                     searchCache, searchScore).threw

\* C24: after a search pass, of a new term or of a repeated one, the
\* searchScore of every retained entry is its relevance score for the
\* current search term.
C24_ScoreIsOfCurrentTerm ==
  [][SearchPassReturns =>
       \A i \in 1..Len(state'.filteredRepositories) :
         state'.filteredRepositories[i].owner # <<>> =>
           ScoreOrZero(searchScore', state'.filteredRepositories[i])
             = SumTermScores(state'.filteredRepositories[i],
                             TermsOf(state'.searchTerm))]_vars

(***************************************************************************)
(* Properties of the displayed order.                                      *)
(***************************************************************************)
\* the list a filter pass from scratch yields for the current working set,
\* searchTerm, selectedLanguage and sortBy: a function of these four
ViewOfFilters ==
  updateFilteredRepositories(
    [state |-> state, alias |-> OwnArray, cache |-> <<>>, scores |-> <<>>,
     threw |-> FALSE]).state.filteredRepositories

\* the first load is over and has succeeded
ReadyAfterFirstLoad ==
  /\ Len(loads) = 1
  /\ loads[1] = "over"
  /\ state.error = Null

\* C25: state.filteredRepositories is a function of the loaded data,
\* searchTerm, selectedLanguage and sortBy alone, the order of the entries
\* that tie under sortBy included: whatever the actions that led to these
\* four values, the list is the one a filter pass yields from them.
C25_ViewIsFunctionOfFilters ==
  ReadyAfterFirstLoad => state.filteredRepositories = ViewOfFilters

\* sorted by stars, with two records of equal stars in the list, in the order
\* the filter pass yields
C25_Witness ==
  /\ ReadyAfterFirstLoad
  /\ state.sortBy = "stars"
  /\ state.filteredRepositories = ViewOfFilters
  /\ \E i, j \in 1..Len(state.filteredRepositories) :
       /\ i < j
       /\ state.filteredRepositories[i].id # state.filteredRepositories[j].id
       /\ state.filteredRepositories[i].stargazers_count
            = state.filteredRepositories[j].stargazers_count

(***************************************************************************)
(* Properties of the relevance order.                                      *)
(***************************************************************************)
\* the relevance score of a record for a search term
Relevance(repo, searchTerm) == SumTermScores(repo, TermsOf(searchTerm))

\* the position of a record object in a list
PositionIn(repos, repo) ==
  CHOOSE i \in 1..Len(repos) : ObjectOf(repos[i]) = ObjectOf(repo)

\* found is by descending relevance for searchTerm, the records of equal
\* relevance in the order they have in repositories
RelevanceOrder(found, repositories, searchTerm) ==
  \A i, j \in 1..Len(found) :
    (i < j /\ found[i].owner # <<>> /\ found[j].owner # <<>>) =>
      \/ Relevance(found[i], searchTerm) > Relevance(found[j], searchTerm)
      \/ /\ Relevance(found[i], searchTerm) = Relevance(found[j], searchTerm)
         /\ \A k \in {i, j} :
              \E p \in 1..Len(repositories) :
                ObjectOf(repositories[p]) = ObjectOf(found[k])
         /\ PositionIn(repositories, found[i]) < PositionIn(repositories, found[j])

\* C26: the sequence a search pass produces is by descending relevance
\* score, and the entries of equal score keep the relative order they have
\* in the input sequence.
C26_ResultByRelevance ==
  [][SearchPassReturns =>
       RelevanceOrder(memoizedSearch(state.repositories, state'.searchTerm,
                                     searchCache, searchScore).kept,
                      state.repositories, state'.searchTerm)]_vars

\* a search for a term that is not empty is applied
NonEmptySearchApplied == DebounceFire /\ state'.searchTerm # <<>>

\* the entries the comparator of sortBy does not tell apart are in
\* relevance order
TiesByRelevance(repos, sortBy, searchTerm) ==
  \A i \in DOMAIN repos : \A j \in DOMAIN repos :
    (/\ i < j
     /\ ~ComesBefore(repos[i], repos[j], sortBy)
     /\ ~ComesBefore(repos[j], repos[i], sortBy)
     /\ repos[i].owner # <<>>
     /\ repos[j].owner # <<>>) =>
      Relevance(repos[i], searchTerm) >= Relevance(repos[j], searchTerm)

\* C27: after a non-empty search is applied, state.filteredRepositories is
\* in the order of the comparator of the current sortBy; the relevance score
\* decides the order only among the entries that compare equal under sortBy,
\* and under recent-likes, whose originalIndex values are distinct, it
\* decides nothing.
C27_SortByOverRelevance ==
  [][NonEmptySearchApplied =>
       (/\ OrderedBy(state'.filteredRepositories, state'.sortBy)
        /\ TiesByRelevance(state'.filteredRepositories, state'.sortBy, state'.searchTerm)
        /\ (state'.sortBy = "recent-likes" =>
              \A i \in DOMAIN state'.filteredRepositories : \A j \in DOMAIN state'.filteredRepositories :
                i < j => state'.filteredRepositories[i].originalIndex < state'.filteredRepositories[j].originalIndex))]_vars

(***************************************************************************)
(* Properties of the relevance score.                                      *)
(***************************************************************************)
\* the weight of a field when the term occurs in it, case-insensitively
Weigh(weight, field, term) == IF Includes(ToLower(field), term) THEN weight ELSE 0

\* 10 for the name, 8 for at least one topic, 6 for the language, 5 for the
\* description and 4 for the owner's login
WeightsOfTerm(repo, term) ==
    Weigh(10, repo.name, term)
  + (IF \E t \in DOMAIN repo.topics : Weigh(8, repo.topics[t], term) = 8
     THEN 8 ELSE 0)
  + Weigh(6, repo.language, term)
  + Weigh(5, repo.description, term)
  + (IF repo.owner # <<>> THEN Weigh(4, repo.owner[1], term) ELSE 0)

RECURSIVE SumOfWeights(_, _, _)
SumOfWeights(repo, terms, n) ==
  IF n = 0 THEN 0
  ELSE SumOfWeights(repo, terms, n - 1) + WeightsOfTerm(repo, terms[n])

WeightedScore(repo, searchTerm) ==
  SumOfWeights(repo, TermsOf(searchTerm), Len(TermsOf(searchTerm)))

\* the search pass computes the scores: the term is not served from the cache
ScoringPass ==
  /\ SearchPassReturns
  /\ ~CacheHas(searchCache, CacheKey(state'.searchTerm, state.repositories))

\* C28: the relevance score a search pass computes for a retained repository
\* is the sum over the search terms of 10 for the name, 8 for at least one
\* topic, 6 for the language, 5 for the description and 4 for the owner's
\* login, and no entry of score 0 is in the result.
C28_ScoreIsWeightedSum ==
  [][(SearchPassReturns =>
        \A i \in DOMAIN state'.filteredRepositories :
          WeightedScore(state'.filteredRepositories[i], state'.searchTerm) > 0)
     /\ (ScoringPass =>
           \A i \in DOMAIN state'.filteredRepositories :
             ScoreOrZero(searchScore', state'.filteredRepositories[i])
               = WeightedScore(state'.filteredRepositories[i], state'.searchTerm))]_vars

\* a search of two terms has retained two records of different scores, each
\* annotated with its weighted sum
C28_Witness ==
  /\ Len(TermsOf(state.searchTerm)) = 2
  /\ Len(state.filteredRepositories) >= 2
  /\ \E i, j \in DOMAIN state.filteredRepositories :
       /\ ScoreOrZero(searchScore, state.filteredRepositories[i])
            > ScoreOrZero(searchScore, state.filteredRepositories[j])
       /\ ScoreOrZero(searchScore, state.filteredRepositories[j]) > 0
       /\ \A k \in {i, j} :
            ScoreOrZero(searchScore, state.filteredRepositories[k])
              = WeightedScore(state.filteredRepositories[k], state.searchTerm)

(***************************************************************************)
(* Properties of the retry button.                                         *)
(***************************************************************************)
\* the load a retry started has not ended
RetryInFlight == \E l \in DOMAIN loads : l > 1 /\ loads[l] # "over"

\* C29: a retry from the error state enters the loading state (isLoading
\* true, error null), and while its load is in flight the view, once no
\* frame is pending, shows the loading region and not the error panel.
C29_RetryShowsLoading ==
  [][(Retry => (state'.isLoading /\ state'.error = Null))
     /\ ((RetryInFlight' /\ ~animationFrame') =>
           (display'.loadingState = "flex" /\ display'.errorState = "none"))]_vars

\* a retry is in flight and the view is settled
C29_Witness == RetryInFlight /\ ~animationFrame /\ state.isLoading

(***************************************************************************)
(* Properties of the pending animation frames.                             *)
(***************************************************************************)
\* C30: at most one frame callback that writes the repository grid is
\* pending, and the callback that runs writes the grid of the current
\* state, never of a list the state has replaced since the request.
C30_OneGridWriterPending ==
  [][(/\ ~(animationFrame' /\ gridFrame'.pending)
      /\ (FrameFire /\ gridFrame.pending) =>
            CapturedArray = state.filteredRepositories)]_vars

\* the frame of renderRepositories is pending with a list the state has
\* replaced, and a frame of render is pending as well
C30_Witness ==
  /\ animationFrame
  /\ gridFrame.pending
  /\ CapturedArray # state.filteredRepositories

(***************************************************************************)
(* Properties of the view once nothing is pending.                         *)
(***************************************************************************)
\* no load is in flight and no timer or frame is pending: with no further
\* event of the user, nothing more runs
Settled ==
  /\ Started
  /\ \A l \in DOMAIN loads : loads[l] = "over"
  /\ ~debounceTimer.pending
  /\ recoveryTimers = 0
  /\ ~animationFrame
  /\ ~gridFrame.pending

\* the view is that of the state: the loading region, the error panel, the
\* empty-results region, or the grid with the sections of the records of
\* state.filteredRepositories
ViewOfState ==
  IF state.isLoading THEN display.loadingState = "flex"
  ELSE IF state.error # Null
  THEN display.errorState = "flex" /\ display.repositoryGrid = "none"
  ELSE IF state.filteredRepositories = <<>>
  THEN display.emptyState = "flex" /\ display.repositoryGrid = "none"
  ELSE /\ display.repositoryGrid = "grid"
       /\ display.errorState = "none"
       /\ display.emptyState = "none"
       /\ grid = groupRepositoriesByLanguage(state.filteredRepositories,
                                             languageOrder, state.languageCategory)

\* C31: once the events of the user and of the loads have stopped and the
\* pending timers and frames have run, the view shows the current state:
\* the grid of the current state.filteredRepositories, or the region of the
\* current state.
C31_SettledViewIsState == Settled => ViewOfState

\* settled after a second load, with the grid of the records it brought
C31_Witness ==
  /\ Settled
  /\ ViewOfState
  /\ Len(loads) = 2
  /\ state.filteredRepositories # <<>>

(***************************************************************************)
(* Properties of what filtering, sorting and grouping leave alone.         *)
(***************************************************************************)
\* a step that filters, sorts or groups: an action of the user, or the frame
\* that groups the records for the grid
FilterSortOrGroup == UserAction \/ FrameFire

\* the records of repos are, field by field, records of the working set
FieldsKept(repos, repositories) ==
  \A i \in DOMAIN repos :
    \A j \in DOMAIN repositories :
      ObjectOf(repos[i]) = ObjectOf(repositories[j]) => repos[i] = repositories[j]

\* C32: filtering, sorting and grouping change no field of a record (the
\* searchScore annotation apart) and leave state.repositories as it is, in
\* membership and in order: no sort is applied to the working-set list.
C32_WorkingSetUntouched ==
  [][FilterSortOrGroup =>
       (/\ state'.repositories = state.repositories
        /\ FieldsKept(state'.filteredRepositories, state.repositories))]_vars

\* a sort other than the default is in force over a working set of several
\* records, all of them displayed
C32_Witness ==
  /\ state.sortBy # "recent-likes"
  /\ Len(state.repositories) >= 2
  /\ Len(state.filteredRepositories) = Len(state.repositories)

(***************************************************************************)
(* Properties of the grouping by language.                                 *)
(***************************************************************************)
\* the sections that hold a record
SectionsOf(sections, repo) ==
  {s \in DOMAIN sections :
     \E k \in DOMAIN sections[s].repos :
       ObjectOf(sections[s].repos[k]) = ObjectOf(repo)}

\* the sections partition repos by language, each in the order of repos, and
\* none is named "Other"
PartitionByLanguage(sections, repos) ==
  /\ \A i \in DOMAIN repos :
       /\ Cardinality(SectionsOf(sections, repos[i])) = 1
       /\ \A s \in SectionsOf(sections, repos[i]) :
            sections[s].language = repos[i].language
  /\ \A s \in DOMAIN sections :
       /\ sections[s].repos =
            SelectSeq(repos, LAMBDA r : r.language = sections[s].language)
       /\ sections[s].language # LangOther

\* C33: the groups renderRepositories writes partition the filtered
\* sequence: every entry is in exactly one group, the group of its language,
\* the entries of a group are in the order of the sequence, and no group is
\* named "Other".
C33_GroupsPartitionList ==
  [][GridRendered => PartitionByLanguage(grid', CapturedArray)]_vars

\* a grid of two sections, one of them of two records, in the order of a
\* sort other than the default
C33_Witness ==
  /\ state.sortBy # "recent-likes"
  /\ Len(grid) >= 2
  /\ \E s \in DOMAIN grid : Len(grid[s].repos) = 2
  /\ PartitionByLanguage(grid, state.filteredRepositories)

(***************************************************************************)
(* Properties of the quick-filter buttons and the language dropdown.       *)
(***************************************************************************)
\* C34: every language of a quick-filter button is an option of the language
\* dropdown, and a click on a quick-filter button leaves the value of the
\* dropdown equal to state.selectedLanguage.
C34_ButtonsAreOptions ==
  [][(/\ Range(quickFilterButtons'.buttons) \subseteq Range(languageFilter'.options)
      /\ \A language \in Range(quickFilterButtons.buttons) :
           HandleQuickFilter(language) =>
             languageFilter'.value = state'.selectedLanguage)]_vars

\* a quick filter is selected and the dropdown shows it
C34_Witness ==
  /\ state.selectedLanguage # <<>>
  /\ state.selectedLanguage \in quickFilterButtons.active
  /\ languageFilter.value = state.selectedLanguage

(***************************************************************************)
(* Properties of the language order and the flat list.                     *)
(***************************************************************************)
\* each key of a payload grouped by language at its iteration position, and
\* nothing for a flat array
PositionsOfKeys(data) ==
  IF data.kind = "object"
  THEN [k \in {data.groups[i].key : i \in DOMAIN data.groups} |->
          (CHOOSE i \in DOMAIN data.groups : data.groups[i].key = k) - 1]
  ELSE <<>>

\* the arrays of the keys, one after the other
RECURSIVE ConcatArrays(_)
ConcatArrays(groups) ==
  IF groups = <<>> THEN <<>>
  ELSE (IF Head(groups).isArray THEN Head(groups).repos ELSE <<>>)
         \o ConcatArrays(Tail(groups))

\* the working set, in the order of originalIndex, is the valid entries of
\* flat
IsFlatList(repositories, flat) ==
  LET valid == SelectSeq(flat, IsValidEntry)
  IN  /\ Len(repositories) = Len(valid)
      /\ \A i \in DOMAIN valid :
           \E j \in DOMAIN repositories :
             /\ repositories[j].originalIndex = i - 1
             /\ repositories[j].id = valid[i].id

\* C35: a load of a payload grouped by language gives every key its
\* iteration position in languageOrder and flattens the arrays of the keys
\* in that order; a load of a flat array leaves languageOrder empty; every
\* load rebuilds languageOrder from its payload alone.
C35_LanguageOrderOfPayload ==
  [][\A l \in LoadIds : \A data \in KeyPayloads :
       (JsonResolve(l, data) /\ LoadSucceeds(l, data)) =>
         (/\ languageOrder' = PositionsOfKeys(data)
          /\ (data.kind = "object" =>
                IsFlatList(state'.repositories, ConcatArrays(data.groups))))]_vars

\* a second load has brought the three languages of a grouped payload
C35_Witness ==
  /\ Len(loads) = 2
  /\ loads[2] = "over"
  /\ Cardinality(DOMAIN languageOrder) = 3
  /\ Len(state.repositories) = 4

\* C36: a sort value that is none of the seven keys of the switch leaves
\* state.filteredRepositories exactly as the key stars would have left it,
\* in descending order of stargazers_count.
C36_UnknownKeySortsByStars ==
  [][\A sortBy \in ViewSorts \ SortOptions :
       HandleSort(sortBy) =>
         (/\ state'.filteredRepositories =
               setState(App, [sortBy |-> "stars"]).state.filteredRepositories
          /\ OrderedBy(state'.filteredRepositories, "stars"))]_vars

\* the list is sorted under a value of no case, with two records whose
\* stars run against their order in the data
C36_Witness ==
  /\ state.sortBy \notin SortOptions
  /\ \E i \in DOMAIN state.filteredRepositories :
       \E j \in DOMAIN state.filteredRepositories :
         /\ i < j
         /\ state.filteredRepositories[i].stargazers_count
              > state.filteredRepositories[j].stargazers_count
         /\ state.filteredRepositories[i].originalIndex
              > state.filteredRepositories[j].originalIndex

====
